---------------------------- MODULE Spec2Model ----------------------------
(* A model of the map_ten package: the conflict-based min-cost-flow      *)
(* planner (mcf_solver, ten_builder, graph_builder), the reservation     *)
(* table, map file I/O (load_map, save_map, export_occupancy_grid), and  *)
(* the builders lines_to_graph and build_ten called on their own, and    *)
(* the map editor's event handlers (map_editor.MapEditor).               *)
EXTENDS Integers, Sequences, FiniteSets, TLC

VARIABLES
    graph,        \* cbm_solve: the base connectivity graph (nx.Graph)
    agents,       \* cbm_solve: the agents dict, in insertion order
    k,            \* cbm_solve: number of candidate paths per agent
    ksp_reversed, \* nx.shortest_simple_paths: which way it orders paths of equal weight
    constraints,  \* cbm_solve: agent name -> set of forbidden <<coordinate, time>>
    reservation,  \* ReservationTable._table: <<coordinate, time>> -> agent name
    paths,        \* cbm_solve: the paths of the latest solve_mcf call
    conflict,     \* cbm_solve: the latest result of _detect_conflict
    pc,           \* cbm_solve: "loop" | "returned" | "error" ("off": planner not running)
    iter,         \* cbm_solve: number of outer-loop iterations started
    last_call,    \* ReservationTable driven by a caller: the latest call and the table before it
    file,         \* map_io: the parsed content of the map file
    map_data,     \* map_io: the map dictionary in memory
    origin,       \* map_io: what the run started from, a file or a map dictionary
    io_ops,       \* map_io: the load_map / save_map calls made, in order
    resolution,   \* export_occupancy_grid: its resolution argument
    grid,         \* export_occupancy_grid: the grid returned
    line_list,    \* lines_to_graph called on its own: its lines argument
    line_graph,   \* lines_to_graph called on its own: the graph returned
    ten_input,    \* build_ten called on its own: its graph and paths_per_agent arguments
    ten_output,   \* build_ten called on its own: the network and horizon returned
    editor,       \* MapEditor: the fields of the editor object and the items on its canvas
    ed_last,      \* MapEditor: the latest event handled and whether it raised; the latest snap call
    ed_before,    \* MapEditor: the editor before the latest placement of an item
    plan_out      \* cli plan: the content written to the output file

-----------------------------------------------------------------------------
(* Generic helpers                                                          *)

Signed(x) == x

Range(s) == {s[i] : i \in DOMAIN s}

EmptyMap == [x \in {} |-> 0]

IndexOf(s, x) == CHOOSE i \in DOMAIN s : s[i] = x /\ \A j \in DOMAIN s : s[j] = x => i <= j

Abs(x) == IF x < 0 THEN -x ELSE x

SetMax(S) == CHOOSE m \in S : \A x \in S : x <= m

SetMin(S) == CHOOSE m \in S : \A x \in S : m <= x

\* a mutation of MapPut that keeps the value a key already has
MapPutIfAbsent(m, key, value) ==
    IF key \in DOMAIN m THEN m
    ELSE [x \in DOMAIN m \cup {key} |-> IF x = key THEN value ELSE m[x]]

\* dict[key] = value on an insertion-ordered mapping whose order is not observed
MapPut(m, key, value) ==
    [x \in DOMAIN m \cup {key} |-> IF x = key THEN value ELSE m[x]]

-----------------------------------------------------------------------------
(* nx.Graph as graph_builder uses it: nodes and neighbours keep insertion  *)
(* order, an edge's data is shared by both directions.                      *)

EmptyGraph == [nodes |-> <<>>, adj |-> EmptyMap, weight |-> EmptyMap]

AddNode(g, n) ==
    IF n \in Range(g.nodes) THEN g
    ELSE [nodes |-> Append(g.nodes, n),
          adj |-> MapPut(g.adj, n, <<>>),
          weight |-> g.weight]

AddNbr(g, u, v) ==
    IF v \in Range(g.adj[u]) THEN g ELSE [g EXCEPT !.adj[u] = Append(@, v)]

AddEdge(g, u, v, w) ==
    LET g1 == AddNode(AddNode(g, u), v)
        g2 == AddNbr(AddNbr(g1, u, v), v, u)
    IN  [g2 EXCEPT !.weight = MapPut(MapPut(g.weight, <<u, v>>, w), <<v, u>>, w)]

RECURSIVE LinesToGraphFrom(_, _, _)
LinesToGraphFrom(g, lines, i) ==
    IF i > Len(lines) THEN g
    ELSE LET u == lines[i][1]
             v == lines[i][2]
             weight == Abs(u[1] - v[1]) + Abs(u[2] - v[2])
         IN  LinesToGraphFrom(AddEdge(g, u, v, weight), lines, i + 1)

lines_to_graph(lines) == LinesToGraphFrom(EmptyGraph, lines, 1)

\* Graph.edges(): each node in insertion order with the neighbours not yet visited
RECURSIVE EdgesFrom(_, _)
EdgesFrom(g, i) ==
    IF i > Len(g.nodes) THEN <<>>
    ELSE LET n == g.nodes[i]
             nb == SelectSeq(g.adj[n], LAMBDA m : IndexOf(g.nodes, m) >= i)
         IN  [j \in 1..Len(nb) |-> <<n, nb[j]>>] \o EdgesFrom(g, i + 1)

GraphEdges(g) == EdgesFrom(g, 1)

-----------------------------------------------------------------------------
(* ten_builder.k_shortest_paths: nx.shortest_simple_paths, first k          *)

RECURSIVE SimplePathsFrom(_, _, _)
SimplePathsFrom(g, path, goal) ==
    LET last == path[Len(path)]
    IN  IF last = goal THEN {path}
        ELSE UNION {SimplePathsFrom(g, Append(path, v), goal) :
                      v \in {x \in Range(g.adj[last]) : x \notin Range(path)}}

SimplePaths(g, start, goal) ==
    IF start \in Range(g.nodes) /\ goal \in Range(g.nodes)
    THEN SimplePathsFrom(g, <<start>>, goal)
    ELSE {}

RECURSIVE PathWeightFrom(_, _, _)
PathWeightFrom(g, p, i) ==
    IF i >= Len(p) THEN 0
    ELSE g.weight[<<p[i], p[i + 1]>>] + PathWeightFrom(g, p, i + 1)

PathWeight(g, p) == PathWeightFrom(g, p, 1)

\* shortest_simple_paths orders paths of equal weight in a way of its own, the
\* same on every call: by length and node insertion index, one way or the other
RECURSIVE PathCode(_, _, _)
PathCode(g, p, i) ==
    IF i > Len(p) THEN 0
    ELSE IndexOf(g.nodes, p[i]) + (Len(g.nodes) + 1) * PathCode(g, p, i + 1)

TieBefore(g, p, q) ==
    \/ Len(p) < Len(q)
    \/ Len(p) = Len(q) /\ PathCode(g, p, 1) <= PathCode(g, q, 1)

PathBefore(g, p, q, rev) ==
    \/ PathWeight(g, p) < PathWeight(g, q)
    \/ /\ PathWeight(g, p) = PathWeight(g, q)
       /\ IF rev THEN TieBefore(g, q, p) ELSE TieBefore(g, p, q)

RECURSIVE Ascending(_, _, _)
Ascending(g, S, rev) ==
    IF S = {} THEN <<>>
    ELSE LET first == CHOOSE p \in S : \A q \in S : PathBefore(g, p, q, rev)
         IN  <<first>> \o Ascending(g, S \ {first}, rev)

\* raises NodeNotFound / NetworkXNoPath
KspRaises(g, start, goal) == SimplePaths(g, start, goal) = {}

k_shortest_paths(g, start, goal, kk, rev) ==
    LET all == Ascending(g, SimplePaths(g, start, goal), rev)
    IN  SubSeq(all, 1, IF Len(all) < kk THEN Len(all) ELSE kk)

-----------------------------------------------------------------------------
(* ten_builder.build_ten: the time-expanded network. A network is a record  *)
(* of its horizon, its nodes <<coordinate, t>>, each node's successors in   *)
(* insertion order, and the weight and capacity of each edge <<u, t, v>>,    *)
(* the edge from <<u, t>> to <<v, t + 1>>.                                   *)

AllowedEdges(paths_per_agent) ==
    UNION {UNION {{<<paths_per_agent[a][j][i], paths_per_agent[a][j][i + 1]>> :
                     i \in 1..(Len(paths_per_agent[a][j]) - 1)} :
                  j \in DOMAIN paths_per_agent[a]} :
           a \in DOMAIN paths_per_agent}

\* a mutation of MaxLen that counts a path's steps, not its coordinates
LongestSteps(paths_per_agent) ==
    SetMax({0} \cup UNION {{Len(paths_per_agent[a][j]) - 1 : j \in DOMAIN paths_per_agent[a]} :
                           a \in DOMAIN paths_per_agent})

MaxLen(paths_per_agent) ==
    SetMax({0} \cup UNION {{Len(paths_per_agent[a][j]) : j \in DOMAIN paths_per_agent[a]} :
                           a \in DOMAIN paths_per_agent})

WaitWeight == 1

EdgeCapacity == 1

\* a mutation of MoveNbrs that expands every edge of the base graph
MoveNbrsUnfiltered(edge_list, allowed_edges, u) ==
    LET inc == SelectSeq(edge_list, LAMBDA e : (e[1] = u \/ e[2] = u) /\ e[1] # e[2])
    IN  [j \in 1..Len(inc) |-> IF inc[j][1] = u THEN inc[j][2] ELSE inc[j][1]]

\* a mutation of MoveNbrs that adds a move edge in the direction of the base edge only
MoveNbrsForward(edge_list, allowed_edges, u) ==
    LET inc == SelectSeq(edge_list,
                         LAMBDA e : /\ <<e[1], e[2]>> \in allowed_edges
                                       \/ <<e[2], e[1]>> \in allowed_edges
                                    /\ e[1] = u
                                    /\ e[1] # e[2])
    IN  [j \in 1..Len(inc) |-> inc[j][2]]

\* the coordinates a move edge leads to from u, in the order build_ten adds them
MoveNbrs(edge_list, allowed_edges, u) ==
    LET inc == SelectSeq(edge_list,
                         LAMBDA e : /\ <<e[1], e[2]>> \in allowed_edges
                                       \/ <<e[2], e[1]>> \in allowed_edges
                                    /\ e[1] = u \/ e[2] = u
                                    /\ e[1] # e[2])
    IN  [j \in 1..Len(inc) |-> IF inc[j][1] = u THEN inc[j][2] ELSE inc[j][1]]

\* a mutation of TenWeight that charges a move no more than a wait
UnitWeight(g, allowed_edges, u, v) == 1

\* the weight of the edge from <<u, t>> to <<v, t + 1>>: a wait edge's weight,
\* unless a move edge over a line from u to u was added over it
TenWeight(g, allowed_edges, u, v) ==
    IF u # v THEN g.weight[<<u, v>>]
    ELSE IF <<u, u>> \in allowed_edges /\ <<u, u>> \in DOMAIN g.weight
         THEN g.weight[<<u, u>>]
         ELSE WaitWeight

TenOfSucc(g, allowed_edges, horizon, nodes, succ) ==
    [horizon |-> horizon,
     nodes |-> nodes,
     succ |-> succ,
     weight |-> [e \in UNION {{<<n[1], n[2], v>> : v \in Range(succ[n])} : n \in nodes} |->
                   TenWeight(g, allowed_edges, e[1], e[3])],
     capacity |-> [e \in UNION {{<<n[1], n[2], v>> : v \in Range(succ[n])} : n \in nodes} |->
                     EdgeCapacity]]

TenOf(g, allowed_edges, horizon, edge_list) ==
    TenOfSucc(g, allowed_edges, horizon,
              {<<c, t>> : c \in Range(g.nodes), t \in 0..horizon},
              [n \in {<<c, t>> : c \in Range(g.nodes), t \in 0..horizon} |->
                  IF n[2] < horizon
                  THEN <<n[1]>> \o MoveNbrs(edge_list, allowed_edges, n[1])
                  ELSE <<>>])

build_ten(g, paths_per_agent) ==
    TenOf(g, AllowedEdges(paths_per_agent), MaxLen(paths_per_agent), GraphEdges(g))

\* DiGraph.remove_node for every node of S that the network holds
RemoveNodes(ten, S) ==
    LET nodes == ten.nodes \ S
        edges == {e \in DOMAIN ten.weight :
                    <<e[1], e[2]>> \notin S /\ <<e[3], e[2] + 1>> \notin S}
    IN  [horizon |-> ten.horizon,
         nodes |-> nodes,
         succ |-> [n \in nodes |->
                     SelectSeq(ten.succ[n], LAMBDA v : <<v, n[2] + 1>> \notin S)],
         weight |-> [e \in edges |-> ten.weight[e]],
         capacity |-> [e \in edges |-> ten.capacity[e]]]

-----------------------------------------------------------------------------
(* mcf_solver.solve_mcf: nx.network_simplex on the network with demand -1   *)
(* at each <<start, 0>> and +1 at each <<goal, horizon>>. The network is     *)
(* acyclic, so an integral feasible flow is a family of unit paths, one per  *)
(* agent's start, that respects the capacities and ends on the goals.        *)

RECURSIVE ExtendPaths(_, _, _)
ExtendPaths(ten, P, t) ==
    IF t = ten.horizon THEN P
    ELSE ExtendPaths(ten,
                     UNION {{Append(p, v) : v \in Range(ten.succ[<<p[t + 1], t>>])} : p \in P},
                     t + 1)

UnitPaths(ten, start) ==
    IF <<start, 0>> \in ten.nodes THEN ExtendPaths(ten, {<<start>>}, 0) ELSE {}

EdgesOf(p) == {<<p[i], i - 1, p[i + 1]>> : i \in 1..(Len(p) - 1)}

Usage(r, e) == Cardinality({i \in DOMAIN r : e \in EdgesOf(r[i])})

\* unit paths from the agent's start that end where some agent's goal is
GoalPaths(ten, ags, i) ==
    {p \in UnitPaths(ten, ags[i].start) :
        \E j \in DOMAIN ags : p[Len(p)] = ags[j].goal}

RECURSIVE RoutingsUpTo(_, _, _, _)
RoutingsUpTo(ten, ags, U, i) ==
    IF i = 0 THEN {<<>>}
    ELSE UNION {{Append(r, p) :
                   p \in {q \in U[i] :
                            \A e \in EdgesOf(q) : Usage(r, e) + 1 <= ten.capacity[e]}} :
                r \in RoutingsUpTo(ten, ags, U, i - 1)}

\* as many paths end on each goal as agents have it for their goal
EndsMeetGoals(ags, r) ==
    \A c \in {ags[i].goal : i \in DOMAIN ags} :
        Cardinality({i \in DOMAIN r : r[i][Len(r[i])] = c})
          = Cardinality({i \in DOMAIN ags : ags[i].goal = c})

\* the unit-path families that meet every node's demand
Routings(ten, ags) ==
    {r \in RoutingsUpTo(ten, ags, [i \in DOMAIN ags |-> GoalPaths(ten, ags, i)], Len(ags)) :
       EndsMeetGoals(ags, r)}

RECURSIVE UnitCost(_, _, _)
UnitCost(ten, p, i) ==
    IF i >= Len(p) THEN 0
    ELSE ten.weight[<<p[i], i - 1, p[i + 1]>>] + UnitCost(ten, p, i + 1)

RECURSIVE RoutingCost(_, _, _)
RoutingCost(ten, r, i) ==
    IF i > Len(r) THEN 0 ELSE UnitCost(ten, r[i], 1) + RoutingCost(ten, r, i + 1)

FlowOf(ten, r) == [e \in DOMAIN ten.weight |-> Usage(r, e)]

\* KeyError on a removed <<start, 0>> or <<goal, horizon>>
DemandRaises(ten, ags) ==
    \E i \in DOMAIN ags : \/ <<ags[i].start, 0>> \notin ten.nodes
                          \/ <<ags[i].goal, ten.horizon>> \notin ten.nodes

LeastCostFlows(ten, R, least) ==
    {FlowOf(ten, r) : r \in {x \in R : RoutingCost(ten, x, 1) = least}}

FlowsAmong(ten, R) ==
    IF R = {} THEN {}
    ELSE LeastCostFlows(ten, R, SetMin({RoutingCost(ten, r, 1) : r \in R}))

\* every flow network_simplex may return: the feasible flows of least cost
\* (none: it raises NetworkXUnfeasible)
MinCostFlows(ten, ags) == FlowsAmong(ten, Routings(ten, ags))

-----------------------------------------------------------------------------
(* mcf_solver._extract_paths                                                 *)

RECURSIVE Walk(_, _, _, _)
Walk(ten, flow, path, t) ==
    IF t = ten.horizon THEN [path |-> path, flow |-> flow]
    ELSE LET c == path[Len(path)]
             edges == IF <<c, t>> \in ten.nodes THEN ten.succ[<<c, t>>] ELSE <<>>
             carrying == {j \in DOMAIN edges : flow[<<c, t, edges[j]>>] > 0}
         IN  IF carrying = {} THEN [path |-> path, flow |-> flow]
             ELSE LET v == edges[SetMin(carrying)]
                  IN  Walk(ten, [flow EXCEPT ![<<c, t, v>>] = @ - 1], Append(path, v), t + 1)

RECURSIVE ExtractFrom(_, _, _, _, _)
ExtractFrom(ten, flow, ags, i, acc) ==
    IF i > Len(ags) THEN acc
    ELSE LET w == Walk(ten, flow, <<ags[i].start>>, 0)
         IN  ExtractFrom(ten, w.flow, ags, i + 1, Append(acc, w.path))

extract_paths(ten, flow, ags) == ExtractFrom(ten, flow, ags, 1, <<>>)

\* the path mappings solve_mcf may return; none when it raises
solve_mcf(ten, ags) ==
    IF DemandRaises(ten, ags) THEN {}
    ELSE {extract_paths(ten, f, ags) : f \in MinCostFlows(ten, ags)}

-----------------------------------------------------------------------------
(* mcf_solver._detect_conflict                                               *)

NoConflict == [a1 |-> "", a2 |-> "", node |-> <<>>, time |-> -1]

\* path[t] if t < len(path) else path[-1]
At(path, t) == IF t < Len(path) THEN path[t + 1] ELSE path[Len(path)]

\* a mutation of ScanAgents that looks at no agent
ScanNobody(ags, ps, t, i, occupancy) == NoConflict

RECURSIVE ScanAgents(_, _, _, _, _)
ScanAgents(ags, ps, t, i, occupancy) ==
    IF i > Len(ps) THEN NoConflict
    ELSE LET node == At(ps[i], t)
         IN  IF node \in DOMAIN occupancy
             THEN [a1 |-> occupancy[node], a2 |-> ags[i].name, node |-> node, time |-> t]
             ELSE ScanAgents(ags, ps, t, i + 1, MapPut(occupancy, node, ags[i].name))

FirstStep == 0

\* a mutation of ScanTimes that looks at one time step only
ScanOneStep(ags, ps, t, max_len) == ScanAgents(ags, ps, t, 1, EmptyMap)

RECURSIVE ScanTimes(_, _, _, _)
ScanTimes(ags, ps, t, max_len) ==
    IF t >= max_len THEN NoConflict
    ELSE LET found == ScanAgents(ags, ps, t, 1, EmptyMap)
         IN  IF found # NoConflict THEN found ELSE ScanTimes(ags, ps, t + 1, max_len)

detect_conflict(ags, ps) ==
    ScanTimes(ags, ps, FirstStep, SetMax({Len(ps[i]) : i \in DOMAIN ps}))

-----------------------------------------------------------------------------
(* reservation_table.ReservationTable                                        *)

RECURSIVE ReserveFrom(_, _, _, _)
ReserveFrom(table, agent, path, i) ==
    IF i > Len(path) THEN table
    ELSE ReserveFrom(MapPut(table, <<path[i], i - 1>>, agent), agent, path, i + 1)

\* for t, node in enumerate(path): self._table[(node, t)] = agent
reserve(table, agent, path) == ReserveFrom(table, agent, path, 1)

is_reserved(table, node, time) == <<node, time>> \in DOMAIN table

\* path[:steps]: the first steps items, or all but the last -steps of them
Prefix(path, steps) ==
    SubSeq(path, 1, IF steps >= 0
                    THEN SetMin({steps, Len(path)})
                    ELSE SetMax({Len(path) + steps, 0}))

\* for t, node in enumerate(path[:steps]): self._table[(node, t)] = agent
lock_ahead(table, agent, path, steps) == ReserveFrom(table, agent, Prefix(path, steps), 1)

-----------------------------------------------------------------------------
(* The components run one at a time; the others stand idle.                  *)

NoCall == [op |-> "none", agent |-> "", path |-> <<>>, steps |-> 0, before |-> EmptyMap]

solverVars == <<graph, agents, k, ksp_reversed, constraints, paths, conflict, pc, iter>>

tableVars == <<last_call>>

ioVars == <<file, map_data, origin, io_ops, resolution, grid>>

NoOrigin == [kind |-> "none", value |-> EmptyMap]

builderVars == <<line_list, line_graph, ten_input, ten_output>>

editorVars == <<editor, ed_last, ed_before>>

extVars == <<builderVars, editorVars, plan_out>>

NoResult == [kind |-> "none", value |-> <<>>]

\* no builder is called on its own
GraphIdle == line_list = <<>> /\ line_graph = NoResult

NoTenInput == [graph |-> <<>>, paths_per_agent |-> <<>>]

TenIdle == ten_input = NoTenInput /\ ten_output = NoResult

BuilderIdle == GraphIdle /\ TenIdle

NoEditor == [mode |-> "off"]

NoEvent == [op |-> "none", placed |-> "", point |-> <<>>, snapped |-> <<>>, raised |-> FALSE]

\* no editor is open
EditorIdle == editor = NoEditor /\ ed_last = NoEvent /\ ed_before = NoEditor

\* the plan command has written no output
PlanIdle == plan_out = NoResult

ExtIdle == BuilderIdle /\ EditorIdle /\ PlanIdle

\* no caller drives the table from outside cbm_solve
TableIdle == last_call = NoCall

\* no map is loaded, saved or exported
IoIdle ==
    /\ file = EmptyMap
    /\ map_data = EmptyMap
    /\ origin = NoOrigin
    /\ io_ops = <<>>
    /\ resolution = 0
    /\ grid = <<>>

-----------------------------------------------------------------------------
(* mcf_solver.cbm_solve: one action per iteration of its while loop          *)

\* a mutation of paths_per_agent that drops the candidate paths through a
\* forbidden node
CandidatesAvoiding ==
    [i \in DOMAIN agents |->
        SelectSeq(k_shortest_paths(graph, agents[i].start, agents[i].goal, k, ksp_reversed),
                  LAMBDA p : \A n \in DOMAIN p :
                      <<p[n], n - 1>> \notin UNION {constraints[a] : a \in DOMAIN constraints})]

paths_per_agent ==
    [i \in DOMAIN agents |-> k_shortest_paths(graph, agents[i].start, agents[i].goal, k, ksp_reversed)]

Forbidden == UNION {constraints[a] : a \in DOMAIN constraints}

\* the network solve_mcf is given in this iteration
ConstrainedTen == RemoveNodes(build_ten(graph, paths_per_agent), Forbidden)

\* k_shortest_paths raises NodeNotFound or NetworkXNoPath
CandidatesRaise ==
    \E i \in DOMAIN agents : KspRaises(graph, agents[i].start, agents[i].goal)

\* what one pass through the loop body may compute: it raises (in
\* k_shortest_paths, in solve_mcf, or in max() of no paths), or it has the
\* paths of solve_mcf and the result of _detect_conflict
Outcomes(ags, solved) ==
    IF ags = <<>> \/ solved = {}
    THEN {[raised |-> TRUE, paths |-> <<>>, conflict |-> NoConflict]}
    ELSE {[raised |-> FALSE, paths |-> ps, conflict |-> detect_conflict(ags, ps)] :
            ps \in solved}

Iteration ==
    Outcomes(agents, IF CandidatesRaise THEN {} ELSE solve_mcf(ConstrainedTen, agents))

RECURSIVE ReserveAll(_, _, _, _)
ReserveAll(table, ags, ps, i) ==
    IF i > Len(ps) THEN table
    ELSE ReserveAll(reserve(table, ags[i].name, ps[i]), ags, ps, i + 1)

\* an exception leaves cbm_solve
CbmRaise(it) ==
    /\ it.raised
    /\ pc' = "error"
    /\ UNCHANGED <<constraints, reservation, paths, conflict>>

\* conflict is None: every path is reserved and the mapping returned
CbmReturn(it) ==
    /\ ~it.raised
    /\ it.conflict = NoConflict
    /\ paths' = it.paths
    /\ conflict' = NoConflict
    /\ reservation' = ReserveAll(reservation, agents, it.paths, 1)
    /\ pc' = "returned"
    /\ UNCHANGED constraints

\* a mutation of CbmConflict that reserves the paths of every iteration
CbmConflictReserving(it) ==
    /\ ~it.raised
    /\ it.conflict # NoConflict
    /\ paths' = it.paths
    /\ conflict' = it.conflict
    /\ constraints' = [constraints EXCEPT
                         ![it.conflict.a2] = @ \cup {<<it.conflict.node, it.conflict.time>>}]
    /\ reservation' = ReserveAll(reservation, agents, it.paths, 1)
    /\ UNCHANGED pc

\* a mutation of CbmConflict that constrains the first agent of the pair
CbmConflictFirst(it) ==
    /\ ~it.raised
    /\ it.conflict # NoConflict
    /\ paths' = it.paths
    /\ conflict' = it.conflict
    /\ constraints' = [constraints EXCEPT
                         ![it.conflict.a1] = @ \cup {<<it.conflict.node, it.conflict.time>>}]
    /\ UNCHANGED <<reservation, pc>>

\* a mutation of CbmConflict that records the conflict and forbids nothing
CbmConflictIdle(it) ==
    /\ ~it.raised
    /\ it.conflict # NoConflict
    /\ paths' = it.paths
    /\ conflict' = it.conflict
    /\ UNCHANGED <<constraints, reservation, pc>>

\* constraints[a2].add((node, time)), and around the loop again
CbmConflict(it) ==
    /\ ~it.raised
    /\ it.conflict # NoConflict
    /\ paths' = it.paths
    /\ conflict' = it.conflict
    /\ constraints' = [constraints EXCEPT
                         ![it.conflict.a2] = @ \cup {<<it.conflict.node, it.conflict.time>>}]
    /\ UNCHANGED <<reservation, pc>>

CbmIterate ==
    /\ pc = "loop"
    /\ iter' = iter + 1
    /\ UNCHANGED <<graph, agents, k, ksp_reversed>>
    /\ \E it \in Iteration : CbmRaise(it) \/ CbmReturn(it) \/ CbmConflict(it)
    /\ UNCHANGED <<tableVars, ioVars, extVars>>

SolverNext == CbmIterate

\* the maps and agent sets the planner is run on
SegList ==
    << <<<<0, 0>>, <<40, 0>>>>, <<<<40, 0>>, <<80, 0>>>>,
       <<<<40, 0>>, <<40, 40>>>>, <<<<40, 40>>, <<80, 0>>>> >>

Coords == {<<0, 0>>, <<40, 0>>, <<80, 0>>, <<40, 40>>}

AgentNames == <<"A", "B">>

MaxK == 2

RECURSIVE SubLists(_, _)
SubLists(s, i) ==
    IF i > Len(s) THEN {<<>>}
    ELSE LET rest == SubLists(s, i + 1)
         IN  rest \cup {<<s[i]>> \o r : r \in rest}

AgentDicts ==
    UNION {[1..n -> [start : Coords, goal : Coords]] : n \in 0..Len(AgentNames)}

Named(d) == [i \in DOMAIN d |-> [name |-> AgentNames[i], start |-> d[i].start, goal |-> d[i].goal]]

\* two simple paths between the same endpoints weigh the same
HasTies(g) ==
    \E s \in Range(g.nodes), t \in Range(g.nodes) :
        \E p \in SimplePaths(g, s, t), q \in SimplePaths(g, s, t) :
            p # q /\ PathWeight(g, p) = PathWeight(g, q)

SolverInit ==
    /\ \E lines \in SubLists(SegList, 1) : graph = lines_to_graph(lines)
    /\ ksp_reversed \in {r \in BOOLEAN : r => HasTies(graph)}
    /\ \E d \in AgentDicts : agents = Named(d)
    /\ k \in 1..MaxK
    /\ constraints = [a \in {agents[i].name : i \in DOMAIN agents} |-> {}]
    /\ reservation = EmptyMap
    /\ paths = <<>>
    /\ conflict = NoConflict
    /\ pc = "loop"
    /\ iter = 0
    /\ TableIdle
    /\ IoIdle
    /\ ExtIdle

vars == <<solverVars, reservation, tableVars, ioVars, extVars>>

SolverSpec == SolverInit /\ [][SolverNext]_vars

\* one more pass through the while loop: the step CbmIterate, seen through
\* the position of the call and its count of passes
LoopPass == pc = "loop" /\ iter' = iter + 1

\* cbm_solve is sequential code: a call that is inside its while loop goes
\* on to make the next pass
SolverFairSpec == SolverSpec /\ WF_iter(LoopPass)

-----------------------------------------------------------------------------
(* Properties of cbm_solve                                                   *)

\* no two agents of the mapping are at one coordinate at one time step, an
\* agent past the end of its path staying on its last coordinate
CollisionFree(ps) ==
    \A i \in DOMAIN ps, j \in DOMAIN ps :
        i # j => \A t \in 0..(SetMax({Len(ps[n]) : n \in DOMAIN ps}) - 1) :
                    At(ps[i], t) # At(ps[j], t)

\* C1: whenever cbm_solve returns a path mapping, no two distinct agents are
\* on the same coordinate at the same time step, for every step up to the
\* last index of the longest path, a shorter path staying on its last
\* coordinate.
C1_ReturnedPathsCollisionFree ==
    pc = "returned" => CollisionFree(paths)

\* C1 witness: two agents that move, returned after a conflict was resolved
C1_ReturnedAfterConflict ==
    /\ pc = "returned"
    /\ Len(paths) = 2
    /\ iter >= 2
    /\ \E i \in DOMAIN paths : paths[i][Len(paths[i])] # paths[i][1]

\* C2 (as the specification states it): in every returned mapping each
\* agent's path begins at its own start and ends at its own goal.
C2_OwnStartOwnGoal ==
    pc = "returned" =>
        \A i \in DOMAIN agents : /\ paths[i][1] = agents[i].start
                                 /\ paths[i][Len(paths[i])] = agents[i].goal

\* the agents of the swap on the line (0,0)-(40,0)-(80,0), one candidate each
SwapInput ==
    /\ graph = lines_to_graph(<<SegList[1], SegList[2]>>)
    /\ agents = << [name |-> "A", start |-> <<0, 0>>, goal |-> <<80, 0>>],
                   [name |-> "B", start |-> <<80, 0>>, goal |-> <<0, 0>>] >>
    /\ k = 1

\* the time-expanded network of the input, before any node is forbidden
FullTen == build_ten(graph, paths_per_agent)

\* no two unit paths of the network, one from each agent's start, that
\* together end on the goals are free of collisions
BottleneckIn(ten, ags) ==
    \A p \in GoalPaths(ten, ags, 1), q \in GoalPaths(ten, ags, 2) :
        ~(EndsMeetGoals(ags, <<p, q>>) /\ CollisionFree(<<p, q>>))

\* two agents that have candidate paths and no conflict-free joint routing
Bottleneck ==
    /\ Len(agents) = 2
    /\ ~CandidatesRaise
    /\ BottleneckIn(FullTen, agents)

\* C3 (as the specification states it): on an input with an unavoidable
\* bottleneck the outer loop iterates indefinitely, neither returning nor
\* raising: the call is never seen outside its loop.
C3_BottleneckLoopsForever ==
    pc # "loop" => ~Bottleneck

\* C3 (amended): cbm_solve does not loop for ever. Every pass through the
\* loop either ends the call or forbids one more node of the time-expanded
\* network, so there are at most one more passes than the network has nodes;
\* and on an input with an unavoidable bottleneck the call never returns a
\* mapping, so it ends by raising.
C3_BottleneckEndsInError ==
    (Len(agents) = 2 /\ ~CandidatesRaise) =>
        /\ iter <= Cardinality(FullTen.nodes) + 1
        /\ Cardinality(Forbidden) = (IF pc = "loop" THEN iter ELSE iter - 1)
        /\ Forbidden \subseteq FullTen.nodes
        /\ (pc = "returned" => ~Bottleneck)

\* C3 witness: a bottleneck input on which a conflict was constrained and the
\* next iteration raised
C3_BottleneckRaised ==
    /\ pc = "error"
    /\ iter >= 2
    /\ conflict # NoConflict
    /\ Bottleneck

\* C4: on the line (0,0)-(40,0)-(80,0) with A from (0,0) to (80,0), B from
\* (80,0) to (0,0) and k = 1, cbm_solve ends by returning, after one
\* iteration, a pair of paths that share no coordinate at any time step.
C4_SwapReturnsCollisionFree ==
    SwapInput =>
        /\ pc # "error"
        /\ iter <= 1
        /\ (pc = "loop" => /\ iter = 0
                           /\ \A it \in Iteration : ~it.raised /\ it.conflict = NoConflict)
        /\ (pc = "returned" => Len(paths) = 2 /\ CollisionFree(paths))

\* C4 witness: the swap has returned
C4_SwapReturned ==
    /\ SwapInput
    /\ pc = "returned"
    /\ iter = 1
    /\ paths = << <<<<0, 0>>, <<0, 0>>, <<0, 0>>, <<0, 0>>>>,
                  <<<<80, 0>>, <<80, 0>>, <<80, 0>>, <<80, 0>>>> >>

\* C17: in every path cbm_solve returns, two consecutive coordinates are
\* the same coordinate (a wait) or the endpoints of an edge of the base graph
\* that occurs, in either direction, in a candidate path of some agent; no
\* path steps across an edge no candidate path used, or between coordinates no
\* line joins.
C17_StepsAreWaitsOrCandidateEdges ==
    pc = "returned" =>
        \A i \in DOMAIN paths : \A j \in 1..(Len(paths[i]) - 1) :
            LET u == paths[i][j]
                v == paths[i][j + 1]
            IN  \/ u = v
                \/ /\ <<u, v>> \in DOMAIN graph.weight
                   /\ \E a \in DOMAIN paths_per_agent : \E c \in Range(paths_per_agent[a]) :
                         \E n \in 1..(Len(c) - 1) : {c[n], c[n + 1]} = {u, v}

\* C17 witness: a returned path that moves, over a graph with an edge that no
\* candidate path uses
C17_ReturnedPathMoves ==
    /\ pc = "returned"
    /\ \E i \in DOMAIN paths : \E j \in 1..(Len(paths[i]) - 1) : paths[i][j] # paths[i][j + 1]
    /\ \E e \in DOMAIN graph.weight :
          /\ <<e[1], e[2]>> \notin AllowedEdges(paths_per_agent)
          /\ <<e[2], e[1]>> \notin AllowedEdges(paths_per_agent)

\* C19: every agent's forbidden set starts empty and never loses an element;
\* an iteration that detects the conflict (a1, a2, c, t) adds (c, t) to the
\* set of a2 and changes the set of no other agent, and an iteration without a
\* conflict changes no set.
C19_ConstraintsGrowBySecondAgent ==
    /\ \A a \in DOMAIN constraints : constraints[a] = {}
    /\ [][/\ DOMAIN constraints' = DOMAIN constraints
          /\ \A a \in DOMAIN constraints : constraints[a] \subseteq constraints'[a]
          /\ IF pc' = "loop"
             THEN /\ conflict' # NoConflict
                  /\ \A a \in DOMAIN constraints :
                        constraints'[a] =
                            IF a = conflict'.a2
                            THEN constraints[a] \cup {<<conflict'.node, conflict'.time>>}
                            ELSE constraints[a]
                  /\ conflict'.a1 # conflict'.a2
             ELSE constraints' = constraints]_vars

\* C19 witness: the second conflict of a run has been resolved, with the first
\* agent's set still empty
C19_TwoConflictsResolved ==
    /\ pc = "loop"
    /\ iter = 2
    /\ conflict # NoConflict
    /\ Cardinality(constraints[conflict.a2]) = 2
    /\ constraints[conflict.a1] = {}

\* C22: the planner never modifies the base graph, and the candidate paths
\* of every agent and the horizon are the same in every iteration of the
\* outer loop, however the forbidden sets have grown; from one iteration to
\* the next the network handed to the solver differs only by the node the
\* conflict forbade.
C22_SameGraphCandidatesHorizon ==
    [][/\ graph' = graph
       /\ paths_per_agent' = paths_per_agent
       /\ MaxLen(paths_per_agent') = MaxLen(paths_per_agent)
       /\ pc' = "loop" =>
             \* the network of the next iteration: the same graph and
             \* candidates, less the nodes forbidden by then
             LET next_ten == RemoveNodes(build_ten(graph, paths_per_agent),
                                         UNION {constraints'[a] : a \in DOMAIN constraints'})
             IN  /\ next_ten.horizon = ConstrainedTen.horizon
                 /\ next_ten.nodes =
                        ConstrainedTen.nodes \ {<<conflict'.node, conflict'.time>>}
                 /\ next_ten.nodes # ConstrainedTen.nodes]_vars

\* C22 witness: a third iteration is due, with a forbidden node on a
\* candidate path
C22_ForbiddenOnCandidate ==
    /\ pc = "loop"
    /\ iter = 2
    /\ \E i \in DOMAIN paths_per_agent : \E p \in Range(paths_per_agent[i]) :
          \E n \in DOMAIN p : <<p[n], n - 1>> \in Forbidden

\* C23: during cbm_solve the reservation table is empty through every
\* iteration that detects a conflict (and every one that raises); it is
\* written in the one iteration that finds no conflict, which returns: for
\* every agent of the returned mapping, every (coordinate, index) of that
\* agent's returned path is reserved for that agent, and nothing else is.
C23_ReservedOnReturnOnly ==
    /\ reservation = EmptyMap
    /\ [][/\ pc' # "returned" => reservation' = EmptyMap
          /\ pc' = "returned" =>
                /\ conflict' = NoConflict
                /\ DOMAIN reservation' =
                       UNION {{<<paths'[i][n], n - 1>> : n \in DOMAIN paths'[i]} : i \in DOMAIN paths'}
                /\ \A i \in DOMAIN paths' : \A n \in DOMAIN paths'[i] :
                       reservation'[<<paths'[i][n], n - 1>>] = agents[i].name]_vars

\* C23 witness: two agents' paths reserved on the return that follows a
\* conflict iteration
C23_ReservedAfterConflict ==
    /\ pc = "returned"
    /\ iter >= 2
    /\ {reservation[key] : key \in DOMAIN reservation} = {"A", "B"}

\* C20: after a conflict (a1, a2, c, t) is resolved the first agent a1 is not
\* constrained by it: the network of the following iteration still holds the
\* node (c, t) for a1 to be routed through, and only a2 is barred from it.
C20_FirstAgentKeepsNode ==
    (pc = "loop" /\ conflict # NoConflict) =>
        <<conflict.node, conflict.time>> \in ConstrainedTen.nodes

-----------------------------------------------------------------------------
(* A ReservationTable driven by a caller: a reserve or a lock_ahead call on  *)
(* a table that is empty or holds the path of an earlier reserve call.       *)

\* cbm_solve is not running
SolverIdle ==
    /\ graph = EmptyGraph
    /\ agents = <<>>
    /\ k = 0
    /\ ksp_reversed = FALSE
    /\ constraints = EmptyMap
    /\ paths = <<>>
    /\ conflict = NoConflict
    /\ pc = "off"
    /\ iter = 0

MaxPathLen == 3

TableCoords == {<<0, 0>>, <<40, 0>>, <<80, 0>>}

TableAgents == {"A", "B"}

TablePaths == UNION {[1..n -> TableCoords] : n \in 0..MaxPathLen}

\* the tables a caller may have built before the call looked at
EarlierTables ==
    {EmptyMap} \cup {reserve(EmptyMap, agent, path) : agent \in TableAgents, path \in TablePaths}

TableInit ==
    /\ reservation \in EarlierTables
    /\ TableIdle
    /\ SolverIdle
    /\ IoIdle
    /\ ExtIdle

Reserve(agent, path) ==
    /\ last_call = NoCall
    /\ reservation' = reserve(reservation, agent, path)
    /\ last_call' = [op |-> "reserve", agent |-> agent, path |-> path, steps |-> 0,
                     before |-> reservation]
    /\ UNCHANGED <<solverVars, ioVars, extVars>>

LockAhead(agent, path, steps) ==
    /\ last_call = NoCall
    /\ reservation' = lock_ahead(reservation, agent, path, steps)
    /\ last_call' = [op |-> "lock_ahead", agent |-> agent, path |-> path, steps |-> steps,
                     before |-> reservation]
    /\ UNCHANGED <<solverVars, ioVars, extVars>>

TableNext ==
    \/ \E agent \in TableAgents, path \in TablePaths : Reserve(agent, path)
    \/ \E agent \in TableAgents, path \in TablePaths, steps \in -1..(MaxPathLen + 1) :
          LockAhead(agent, path, steps)

TableSpec == TableInit /\ [][TableNext]_vars

\* the <<coordinate, time>> pairs a call with this path writes
Written(path) == {<<path[i], i - 1>> : i \in DOMAIN path}

\* C10: after reserve(agent, path), is_reserved(path[t], t) is true for
\* every index t of the path and the owner recorded there is that agent, also
\* where another agent had reserved the pair before; every other entry of the
\* table is as it was, and is_reserved is false for every pair never written
\* (after reserving [(0,0),(40,0),(80,0)] on an empty table, ((40,0),1) is
\* reserved and ((40,0),0) is not).
C10_ReserveRecordsPath ==
    last_call.op = "reserve" =>
        /\ \A i \in DOMAIN last_call.path :
              /\ is_reserved(reservation, last_call.path[i], i - 1)
              /\ reservation[<<last_call.path[i], i - 1>>] = last_call.agent
        /\ \A c \in TableCoords, t \in 0..MaxPathLen :
              <<c, t>> \notin Written(last_call.path) =>
                  /\ is_reserved(reservation, c, t) <=> is_reserved(last_call.before, c, t)
                  /\ is_reserved(reservation, c, t) =>
                        reservation[<<c, t>>] = last_call.before[<<c, t>>]
        /\ DOMAIN reservation = DOMAIN last_call.before \cup Written(last_call.path)
        /\ (last_call.before = EmptyMap /\ last_call.path = <<<<0, 0>>, <<40, 0>>, <<80, 0>>>>) =>
              /\ is_reserved(reservation, <<40, 0>>, 1)
              /\ ~is_reserved(reservation, <<40, 0>>, 0)

\* C10 witness: B reserves a path over pairs of which A held one and not
\* another, and A keeps a pair that B's path does not touch
C10_ReserveOverwrote ==
    /\ last_call.op = "reserve"
    /\ last_call.agent = "B"
    /\ Len(last_call.path) = MaxPathLen
    /\ \E key \in Written(last_call.path) :
          key \in DOMAIN last_call.before /\ last_call.before[key] = "A"
    /\ \E key \in Written(last_call.path) : key \notin DOMAIN last_call.before
    /\ \E key \in DOMAIN reservation : reservation[key] = "A"

\* C11: lock_ahead(agent, path, N) reserves exactly the pairs (path[t], t)
\* for t < min(N, len(path)) and leaves every later step of the path and
\* every other entry of the table as it was, for every integer N
\* (lock_ahead("B", [(0,0),(40,0)], 1) on an empty table reserves only
\* ((0,0),0)).
C11_LockAheadFirstSteps ==
    last_call.op = "lock_ahead" =>
        LET n == SetMin({last_call.steps, Len(last_call.path)})
            first == {<<last_call.path[i], i - 1>> : i \in {j \in DOMAIN last_call.path : j - 1 < n}}
        IN  /\ \A key \in first : key \in DOMAIN reservation /\ reservation[key] = last_call.agent
            /\ DOMAIN reservation = DOMAIN last_call.before \cup first
            /\ \A key \in DOMAIN last_call.before \ first :
                  reservation[key] = last_call.before[key]

-----------------------------------------------------------------------------
(* Python and JSON values as map_io handles them. A dict is a function on     *)
(* its keys and a list of items a sequence; the containers of a geometry      *)
(* value, and the items of a file's geometry lists, carry their type, since   *)
(* the code converts between them and tests for it.                           *)

PyTuple(s) == [type |-> "tuple", val |-> s]

PyList(s) == [type |-> "list", val |-> s]

PyDict(f) == [type |-> "dict", val |-> f]

\* a mutation of tuple that returns its argument as it is
SameValue(v) == v

\* tuple(v)
tuple(v) == PyTuple(v.val)

\* list(v)
list(v) == PyList(v.val)

\* d.get(key, default)
Get(d, key, default) == IF key \in DOMAIN d THEN d[key] ELSE default

-----------------------------------------------------------------------------
(* map_io.export_occupancy_grid                                              *)

\* int(a / b) for b > 0: the quotient cut off toward zero
TruncDiv(a, b) == IF a >= 0 THEN a \div b ELSE -((-a) \div b)

\* the x and the y coordinates the bounds are taken over
XsOf(map) ==
    UNION ({{l.val[1].val[1], l.val[2].val[1]} : l \in Range(Get(map, "lines", <<>>))}
           \cup {{n.val[1]} : n \in Range(Get(map, "nodes", <<>>))}
           \cup {{o.val[1], o.val[3]} : o \in Range(Get(map, "obstacles", <<>>))})

YsOf(map) ==
    UNION ({{l.val[1].val[2], l.val[2].val[2]} : l \in Range(Get(map, "lines", <<>>))}
           \cup {{n.val[2]} : n \in Range(Get(map, "nodes", <<>>))}
           \cup {{o.val[2], o.val[4]} : o \in Range(Get(map, "obstacles", <<>>))})

\* max_x = max_y = 0, raised by every coordinate
MaxCoord(S) == SetMax({0} \cup S)

\* a mutation of Stamp that leaves out the last column and the last row
StampExclusive(cells, rect, res) ==
    [gy \in DOMAIN cells |->
        [gx \in DOMAIN cells[gy] |->
            IF /\ gx - 1 \in TruncDiv(rect.val[1], res)..(TruncDiv(rect.val[3], res) - 1)
               /\ gy - 1 \in TruncDiv(rect.val[2], res)..(TruncDiv(rect.val[4], res) - 1)
            THEN 1 ELSE cells[gy][gx]]]

\* one obstacle: grid[gy][gx] = 1 for gx in range(x_start, x_end + 1) and gy in
\* range(y_start, y_end + 1) inside the grid; row gy is cells[gy + 1]
Stamp(cells, rect, res) ==
    [gy \in DOMAIN cells |->
        [gx \in DOMAIN cells[gy] |->
            IF /\ gx - 1 \in TruncDiv(rect.val[1], res)..TruncDiv(rect.val[3], res)
               /\ gy - 1 \in TruncDiv(rect.val[2], res)..TruncDiv(rect.val[4], res)
            THEN 1 ELSE cells[gy][gx]]]

RECURSIVE StampFrom(_, _, _, _)
StampFrom(cells, obstacles, res, i) ==
    IF i > Len(obstacles) THEN cells
    ELSE StampFrom(Stamp(cells, obstacles[i], res), obstacles, res, i + 1)

GridWidth(map, res) == TruncDiv(MaxCoord(XsOf(map)), res) + 1

GridHeight(map, res) == TruncDiv(MaxCoord(YsOf(map)), res) + 1

export_occupancy_grid(map, res) ==
    StampFrom([gy \in 1..GridHeight(map, res) |-> [gx \in 1..GridWidth(map, res) |-> 0]],
              Get(map, "obstacles", <<>>), res, 1)

\* the maps and resolutions the grid is exported for
MaxObstacles == 2

GridRects ==
    {PyTuple(r) : r \in {<<0, 0, 80, 80>>, <<-30, -30, -10, -10>>, <<-50, 10, 50, 50>>,
                         <<40, 0, 90, 30>>, <<80, 80, 0, 0>>, <<0, 0, 30, 30>>}}

GridLines == {<<>>, <<PyTuple(<<PyTuple(<<0, 0>>), PyTuple(<<120, 0>>)>>)>>}

GridNodes == {<<>>, <<PyTuple(<<40, 130>>)>>}

Resolutions == {30, 40}

\* a dict that holds the key only when the list has items
WithKey(key, items) == IF items = <<>> THEN EmptyMap ELSE [x \in {key} |-> items]

GridMaps ==
    {WithKey("lines", ls) @@ WithKey("nodes", ns) @@ [obstacles |-> os] :
        ls \in GridLines, ns \in GridNodes,
        os \in UNION {[1..n -> GridRects] : n \in 0..MaxObstacles}}

TableOff == reservation = EmptyMap /\ TableIdle

GridInit ==
    /\ map_data \in GridMaps
    /\ resolution \in Resolutions
    /\ grid = <<>>
    /\ io_ops = <<>>
    /\ file = EmptyMap
    /\ origin = NoOrigin
    /\ SolverIdle
    /\ TableOff
    /\ ExtIdle

Export ==
    /\ io_ops = <<>>
    /\ grid' = export_occupancy_grid(map_data, resolution)
    /\ io_ops' = <<"export">>
    /\ UNCHANGED <<file, map_data, origin, resolution, solverVars, reservation, tableVars, extVars>>

GridNext == Export

GridSpec == GridInit /\ [][GridNext]_vars

\* the grid of the map has been returned
Exported == io_ops = <<"export">>

\* the map whose only geometry is the obstacle (0,0,80,80), at resolution 40
OneSquare ==
    /\ map_data = [obstacles |-> <<PyTuple(<<0, 0, 80, 80>>)>>]
    /\ resolution = 40

\* C5 (as the specification states it): the grid of the single obstacle
\* (0,0,80,80) at resolution 40 holds 1 in exactly the four cells (0,0),
\* (1,0), (0,1), (1,1) and 0 in every other cell.
C5_FourCellsMarked ==
    (Exported /\ OneSquare) =>
        \A gy \in DOMAIN grid : \A gx \in DOMAIN grid[gy] :
            grid[gy][gx] = 1 <=> <<gx - 1, gy - 1>> \in {<<0, 0>>, <<1, 0>>, <<0, 1>>, <<1, 1>>}

\* C5 (amended): the grid of the single obstacle (0,0,80,80) at resolution
\* 40 has three rows of three cells, int(80/40) + 1 each way, and all nine
\* cells hold 1: the obstacle's far corner falls in cell (2,2) and the marked
\* range includes it.
C5_NineCellsMarked ==
    (Exported /\ OneSquare) => grid = <<<<1, 1, 1>>, <<1, 1, 1>>, <<1, 1, 1>>>>

\* C5 witness: the grid of that map has been exported and cell (2,2) is marked
C5_OneSquareExported ==
    /\ Exported
    /\ OneSquare
    /\ Len(grid) = 3
    /\ grid[3][3] = 1

\* floor(a / b) for b > 0
FloorDiv(a, b) == a \div b

\* some obstacle's floor range holds the cell
InFloorRange(gx, gy) ==
    \E o \in Range(Get(map_data, "obstacles", <<>>)) :
        /\ FloorDiv(o.val[1], resolution) <= gx /\ gx <= FloorDiv(o.val[3], resolution)
        /\ FloorDiv(o.val[2], resolution) <= gy /\ gy <= FloorDiv(o.val[4], resolution)

\* C6 (as the specification states it): a cell grid[gy][gx] of the returned
\* grid is 1 if and only if some obstacle (x1,y1,x2,y2) has
\* floor(x1/res) <= gx <= floor(x2/res) and floor(y1/res) <= gy <=
\* floor(y2/res), so that an obstacle lying entirely at negative coordinates
\* marks no cell; every other cell is 0.
C6_MarkedIffInFloorRange ==
    Exported =>
        \A gy \in DOMAIN grid : \A gx \in DOMAIN grid[gy] :
            /\ grid[gy][gx] \in {0, 1}
            /\ grid[gy][gx] = 1 <=> InFloorRange(gx - 1, gy - 1)

-----------------------------------------------------------------------------
(* map_io.load_map and map_io.save_map. The file is held as the value that   *)
(* json.loads gives for its text, which for what save_map writes (lists,     *)
(* dicts with string keys, strings, integers, booleans) is the value dumped. *)

DefaultLayers == <<[name |-> "Default", color |-> "#000000", visible |-> TRUE]>>

\* entry.get("id") of an entry without one
None == "None"

\* raw and isinstance(raw[0], dict)
IsDictList(raw) == raw # <<>> /\ raw[1].type = "dict"

MetaOfEntry(entry) ==
    [id |-> Get(entry, "id", None),
     layer |-> Get(entry, "layer", "Default"),
     attributes |-> Get(entry, "attributes", EmptyMap),
     style |-> Get(entry, "style", EmptyMap)]

\* a mutation of SyntheticMeta that numbers the items from 0
SyntheticMetaFromZero(idx) ==
    [id |-> idx, layer |-> "Default", attributes |-> EmptyMap, style |-> EmptyMap]

\* the meta of item idx (from 0) of a list without per-item records
SyntheticMeta(idx) ==
    [id |-> idx + 1, layer |-> "Default", attributes |-> EmptyMap, style |-> EmptyMap]

LoadMeta(raw) ==
    IF IsDictList(raw)
    THEN [i \in DOMAIN raw |-> MetaOfEntry(raw[i].val)]
    ELSE [i \in DOMAIN raw |-> SyntheticMeta(i - 1)]

\* (tuple(p1), tuple(p2)) of the entry's points, or tuple(map(tuple, line))
LoadLines(raw) ==
    IF IsDictList(raw)
    THEN [i \in DOMAIN raw |->
            LET points == Get(raw[i].val, "points",
                              PyList(<<PyList(<<0, 0>>), PyList(<<0, 0>>)>>))
            IN  PyTuple(<<tuple(points.val[1]), tuple(points.val[2])>>)]
    ELSE [i \in DOMAIN raw |->
            PyTuple([j \in DOMAIN raw[i].val |-> tuple(raw[i].val[j])])]

\* tuple(entry.get(key, default)), or tuple(item)
LoadFlat(raw, key, default) ==
    IF IsDictList(raw)
    THEN [i \in DOMAIN raw |-> tuple(Get(raw[i].val, key, default))]
    ELSE [i \in DOMAIN raw |-> tuple(raw[i])]

LoadAgents(spec) ==
    [name \in DOMAIN spec |->
        [slot \in {"start", "goal"} \cap DOMAIN spec[name] |-> tuple(spec[name][slot])]]

load_map(data) ==
    [layers |-> Get(data, "layers", DefaultLayers),
     lines |-> LoadLines(Get(data, "lines", <<>>)),
     line_meta |-> LoadMeta(Get(data, "lines", <<>>)),
     nodes |-> LoadFlat(Get(data, "nodes", <<>>), "point", PyList(<<0, 0>>)),
     node_meta |-> LoadMeta(Get(data, "nodes", <<>>)),
     obstacles |-> LoadFlat(Get(data, "obstacles", <<>>), "rect", PyList(<<0, 0, 0, 0>>)),
     obstacle_meta |-> LoadMeta(Get(data, "obstacles", <<>>)),
     agents |-> LoadAgents(Get(data, "agents", EmptyMap))]

\* entry.update(m)
Update(entry, m) ==
    [x \in DOMAIN entry \cup DOMAIN m |-> IF x \in DOMAIN m THEN m[x] ELSE entry[x]]

\* {key: [list(pt) for pt in g]} for points, {key: list(g)} otherwise
GeomEntry(g, key) ==
    [x \in {key} |-> IF key = "points"
                     THEN PyList([j \in DOMAIN g.val |-> list(g.val[j])])
                     ELSE list(g)]

\* _combine_collection: zip stops at the shorter list
CombineCollection(geom, meta, key) ==
    [i \in 1..SetMin({Len(geom), Len(meta)}) |->
        PyDict(Update(GeomEntry(geom[i], key), meta[i]))]

SaveAgents(spec) ==
    [name \in DOMAIN spec |-> [slot \in DOMAIN spec[name] |-> list(spec[name][slot])]]

\* the value save_map serialises into the file
save_map(data) ==
    [layers |-> Get(data, "layers", <<>>),
     lines |-> CombineCollection(Get(data, "lines", <<>>), Get(data, "line_meta", <<>>), "points"),
     nodes |-> CombineCollection(Get(data, "nodes", <<>>), Get(data, "node_meta", <<>>), "point"),
     obstacles |-> CombineCollection(Get(data, "obstacles", <<>>),
                                     Get(data, "obstacle_meta", <<>>), "rect"),
     agents |-> SaveAgents(Get(data, "agents", EmptyMap))]

\* the maps and files load_map and save_map are run on
MaxItems == 2

MaxOps == 2

IoLines == {<<<<0, 0>>, <<40, 0>>>>, <<<<40, 0>>, <<40, 40>>>>}

IoNodes == {<<>>, <<<<0, 0>>>>, <<<<0, 0>>, <<40, 40>>>>}

IoObstacles == {<<>>, <<<<0, 0, 80, 80>>>>}

IoLayers ==
    {DefaultLayers,
     DefaultLayers \o <<[name |-> "Zone", color |-> "#ff0000", visible |-> FALSE]>>}

IoAgents ==
    {EmptyMap,
     [A |-> [start |-> <<0, 0>>, goal |-> <<40, 40>>]],
     [A |-> [start |-> <<0, 0>>], B |-> [start |-> <<40, 0>>, goal |-> <<0, 0>>]]}

\* what a map holds, whatever the form it is written in: the geometry, the
\* first id, whether items carry layers, attributes and styles of their own
Contents ==
    [lines : UNION {[1..n -> IoLines] : n \in 0..MaxItems},
     nodes : IoNodes,
     obstacles : IoObstacles,
     first_id : {1, 7},
     styled : BOOLEAN,
     layers : IoLayers,
     agents : IoAgents]

\* the meta of the item with this id
MetaFor(id, styled) ==
    IF styled /\ id % 2 = 1
    THEN [id |-> id, layer |-> "Zone", attributes |-> [speed |-> 2],
          style |-> [color |-> "#ff0000"]]
    ELSE [id |-> id, layer |-> "Default", attributes |-> EmptyMap, style |-> EmptyMap]

MetasFrom(id, n, styled) == [i \in 1..n |-> MetaFor(id + i - 1, styled)]

TupleLine(l) == PyTuple(<<PyTuple(l[1]), PyTuple(l[2])>>)

ListLine(l) == PyList(<<PyList(l[1]), PyList(l[2])>>)

\* the agents with their coordinates as tuples, or as lists
AgentsAs(spec, type) ==
    [name \in DOMAIN spec |->
        [slot \in DOMAIN spec[name] |-> [type |-> type, val |-> spec[name][slot]]]]

\* a map dictionary as load_map returns it and the editor holds it; a ragged
\* one has a meta more than it has lines
MapOf(c, ragged) ==
    [layers |-> c.layers,
     lines |-> [i \in DOMAIN c.lines |-> TupleLine(c.lines[i])],
     line_meta |-> MetasFrom(c.first_id, Len(c.lines) + (IF ragged THEN 1 ELSE 0), c.styled),
     nodes |-> [i \in DOMAIN c.nodes |-> PyTuple(c.nodes[i])],
     node_meta |-> MetasFrom(c.first_id + MaxItems + 1, Len(c.nodes), c.styled),
     obstacles |-> [i \in DOMAIN c.obstacles |-> PyTuple(c.obstacles[i])],
     obstacle_meta |-> MetasFrom(c.first_id + 2 * MaxItems + 2, Len(c.obstacles), c.styled),
     agents |-> AgentsAs(c.agents, "tuple")]

\* a file in the canonical form: every item a record with all its keys
CanonicalFileOf(c) ==
    [layers |-> c.layers,
     lines |-> [i \in DOMAIN c.lines |->
                  PyDict([points |-> ListLine(c.lines[i])]
                         @@ MetaFor(c.first_id + i - 1, c.styled))],
     nodes |-> [i \in DOMAIN c.nodes |->
                  PyDict([point |-> PyList(c.nodes[i])]
                         @@ MetaFor(c.first_id + MaxItems + i, c.styled))],
     obstacles |-> [i \in DOMAIN c.obstacles |->
                  PyDict([rect |-> PyList(c.obstacles[i])]
                         @@ MetaFor(c.first_id + 2 * MaxItems + 1 + i, c.styled))],
     agents |-> AgentsAs(c.agents, "list")]

\* a file of records that leave keys out: geometry on the first item only,
\* no layer, attributes or style, no layers and no agents
SparseFileOf(c) ==
    [lines |-> [i \in DOMAIN c.lines |->
                  PyDict(IF i = 1
                         THEN [points |-> ListLine(c.lines[i]), id |-> c.first_id]
                         ELSE [id |-> c.first_id + i - 1])],
     nodes |-> [i \in DOMAIN c.nodes |->
                  PyDict(IF i = 1
                         THEN [point |-> PyList(c.nodes[i]), id |-> c.first_id + MaxItems + 1]
                         ELSE [id |-> c.first_id + MaxItems + i])]]

\* a legacy file: bare lists of raw geometry, a key for each kind it has
LegacyFileOf(c) ==
    WithKey("lines", [i \in DOMAIN c.lines |-> ListLine(c.lines[i])])
    @@ WithKey("nodes", [i \in DOMAIN c.nodes |-> PyList(c.nodes[i])])
    @@ WithKey("obstacles", [i \in DOMAIN c.obstacles |-> PyList(c.obstacles[i])])
    @@ WithKey("agents", AgentsAs(c.agents, "list"))

\* a file with records for its lines and bare lists for the rest
MixedFileOf(c) ==
    [lines |-> CanonicalFileOf(c).lines] @@ LegacyFileOf(c)

IoFiles ==
    UNION {{CanonicalFileOf(c), SparseFileOf(c), LegacyFileOf(c), MixedFileOf(c)} : c \in Contents}

IoMaps == {MapOf(c, ragged) : c \in Contents, ragged \in BOOLEAN}

IoInit ==
    /\ \/ /\ file \in IoFiles
          /\ map_data = EmptyMap
          /\ origin = [kind |-> "file", value |-> file]
       \/ /\ map_data \in IoMaps
          /\ file = EmptyMap
          /\ origin = [kind |-> "map", value |-> map_data]
    /\ io_ops = <<>>
    /\ resolution = 0
    /\ grid = <<>>
    /\ SolverIdle
    /\ TableOff
    /\ ExtIdle

\* the latest call, or what there is to start from
Holding == IF io_ops = <<>> THEN origin.kind ELSE io_ops[Len(io_ops)]

\* data = load_map(path) of the file there is
Load ==
    /\ Len(io_ops) < MaxOps
    /\ Holding \in {"file", "save"}
    /\ map_data' = load_map(file)
    /\ io_ops' = Append(io_ops, "load")
    /\ UNCHANGED <<file, origin, resolution, grid, solverVars, reservation, tableVars, extVars>>

\* save_map(data, path) of the map in memory
Save ==
    /\ Len(io_ops) < MaxOps
    /\ Holding \in {"map", "load"}
    /\ file' = save_map(map_data)
    /\ io_ops' = Append(io_ops, "save")
    /\ UNCHANGED <<map_data, origin, resolution, grid, solverVars, reservation, tableVars, extVars>>

IoNext == Load \/ Save

IoSpec == IoInit /\ [][IoNext]_vars

\* every geometry list is as long as its meta list
EqualLengths(map) ==
    /\ Len(map.lines) = Len(map.line_meta)
    /\ Len(map.nodes) = Len(map.node_meta)
    /\ Len(map.obstacles) = Len(map.obstacle_meta)

\* a record with its geometry, id, layer, attributes and style
FullEntry(item, key) ==
    item.type = "dict" /\ DOMAIN item.val = {key, "id", "layer", "attributes", "style"}

\* a file in the canonical per-item form
Canonical(f) ==
    /\ DOMAIN f = {"layers", "lines", "nodes", "obstacles", "agents"}
    /\ \A i \in DOMAIN f.lines : FullEntry(f.lines[i], "points")
    /\ \A i \in DOMAIN f.nodes : FullEntry(f.nodes[i], "point")
    /\ \A i \in DOMAIN f.obstacles : FullEntry(f.obstacles[i], "rect")

\* C7: for every map M whose geometry lists and meta lists have equal
\* length, load_map of the file written by save_map(M) gives M back: the same
\* layers, the same lines, nodes and obstacles in the same order, the same
\* id, layer, attributes and style per item, the same agents; and saving the
\* map loaded from a canonical file writes that file again.
C7_RoundTrip ==
    /\ (origin.kind = "map" /\ io_ops = <<"save", "load">> /\ EqualLengths(origin.value)) =>
          map_data = origin.value
    /\ (origin.kind = "file" /\ io_ops = <<"load", "save">> /\ Canonical(origin.value)) =>
          file = origin.value

\* C7 witness: a map of two lines, a node, an obstacle, styled items and an
\* agent with a start only has been saved and loaded back
C7_SavedAndLoaded ==
    /\ origin.kind = "map"
    /\ io_ops = <<"save", "load">>
    /\ EqualLengths(origin.value)
    /\ Len(origin.value.lines) = 2
    /\ origin.value.nodes # <<>>
    /\ origin.value.obstacles # <<>>
    /\ origin.value.line_meta[1].layer = "Zone"
    /\ \E name \in DOMAIN origin.value.agents : DOMAIN origin.value.agents[name] = {"start"}
    /\ map_data = origin.value

\* the list of the kind is a bare list of raw geometry
BareList(f, kind) == kind \in DOMAIN f /\ f[kind] # <<>> /\ f[kind][1].type = "list"

\* C8: when load_map reads a kind given as a bare list of raw geometry, the
\* i-th item (from 0) of the kind gets the meta {id: i+1, layer: "Default",
\* attributes: {}, style: {}} and the geometry list keeps the file's order;
\* a file with only lines [[[0,0],[40,0]]] gives one line with id 1.
C8_LegacyMeta ==
    (io_ops # <<>> /\ io_ops[Len(io_ops)] = "load") =>
        /\ BareList(file, "lines") =>
              /\ Len(map_data.lines) = Len(file.lines)
              /\ \A i \in DOMAIN file.lines :
                    /\ map_data.lines[i] =
                          PyTuple(<<PyTuple(file.lines[i].val[1].val),
                                    PyTuple(file.lines[i].val[2].val)>>)
                    /\ map_data.line_meta[i] =
                          [id |-> i, layer |-> "Default", attributes |-> EmptyMap,
                           style |-> EmptyMap]
        /\ BareList(file, "nodes") =>
              /\ Len(map_data.nodes) = Len(file.nodes)
              /\ \A i \in DOMAIN file.nodes :
                    /\ map_data.nodes[i] = PyTuple(file.nodes[i].val)
                    /\ map_data.node_meta[i] =
                          [id |-> i, layer |-> "Default", attributes |-> EmptyMap,
                           style |-> EmptyMap]
        /\ BareList(file, "obstacles") =>
              /\ Len(map_data.obstacles) = Len(file.obstacles)
              /\ \A i \in DOMAIN file.obstacles :
                    /\ map_data.obstacles[i] = PyTuple(file.obstacles[i].val)
                    /\ map_data.obstacle_meta[i] =
                          [id |-> i, layer |-> "Default", attributes |-> EmptyMap,
                           style |-> EmptyMap]

\* C8 witness: the file with only lines [[[0,0],[40,0]]] has been loaded and
\* its line has id 1
C8_OneLegacyLineLoaded ==
    /\ io_ops = <<"load">>
    /\ file = [lines |-> <<PyList(<<PyList(<<0, 0>>), PyList(<<40, 0>>)>>)>>]
    /\ map_data.lines = <<PyTuple(<<PyTuple(<<0, 0>>), PyTuple(<<40, 0>>)>>)>>
    /\ map_data.line_meta[1].id = 1

\* the ids of all items of the map, kind by kind
IdsOf(map) ==
    [i \in DOMAIN map.line_meta |-> map.line_meta[i].id]
    \o [i \in DOMAIN map.node_meta |-> map.node_meta[i].id]
    \o [i \in DOMAIN map.obstacle_meta |-> map.obstacle_meta[i].id]

\* C9 (as the specification states it): every map that load_map produces,
\* also from a legacy file with items of more than one kind, has ids that are
\* pairwise distinct across lines, nodes and obstacles together.
C9_LoadedIdsDistinct ==
    (io_ops # <<>> /\ io_ops[Len(io_ops)] = "load") =>
        \A i, j \in DOMAIN IdsOf(map_data) :
            i # j => IdsOf(map_data)[i] # IdsOf(map_data)[j]

-----------------------------------------------------------------------------
(* graph_builder.lines_to_graph called on its own, on lists of segments that *)
(* repeat segments in either orientation and hold segments of one point.     *)

MaxLines == 3

GraphCoords == {<<0, 0>>, <<3, 4>>, <<40, 0>>}

GraphSegs == GraphCoords \X GraphCoords

LineLists == UNION {[1..n -> GraphSegs] : n \in 0..MaxLines}

GraphInit ==
    /\ line_list \in LineLists
    /\ line_graph = NoResult
    /\ TenIdle
    /\ EditorIdle
    /\ reservation = EmptyMap
    /\ SolverIdle
    /\ TableIdle
    /\ IoIdle
    /\ PlanIdle

BuildGraph ==
    /\ line_graph = NoResult
    /\ line_graph' = [kind |-> "graph", value |-> lines_to_graph(line_list)]
    /\ UNCHANGED <<line_list, ten_input, ten_output, editorVars, plan_out, solverVars,
                   reservation, tableVars, ioVars>>

GraphNext == BuildGraph

GraphSpec == GraphInit /\ [][GraphNext]_vars

\* the segments of a list whose endpoint pair no earlier segment has
Distinct(segs) ==
    SelectSeq([i \in DOMAIN segs |-> <<i, segs[i]>>],
              LAMBDA e : \A j \in 1..(e[1] - 1) : {segs[j][1], segs[j][2]} # {e[2][1], e[2][2]})

WithoutRepeats(segs) == [i \in DOMAIN Distinct(segs) |-> Distinct(segs)[i][2]]

Manhattan(u, v) ==
    (IF u[1] >= v[1] THEN u[1] - v[1] ELSE v[1] - u[1])
        + (IF u[2] >= v[2] THEN u[2] - v[2] ELSE v[2] - u[2])

\* C12: lines_to_graph returns an undirected graph whose nodes are exactly
\* the segment endpoints, whose edges are exactly the unordered endpoint pairs
\* of the segments (a segment repeated in either orientation gives one edge, so
\* the graph of a list with repeats is the graph of the list without them), and
\* each edge weighs |dx| + |dy| of its endpoints (7 for ((0,0),(3,4))).
C12_GraphOfSegments ==
    line_graph.kind = "graph" =>
        LET g == line_graph.value
            edge_list == GraphEdges(g)
        IN  /\ Range(g.nodes) = UNION {{l[1], l[2]} : l \in Range(line_list)}
            /\ Cardinality(Range(g.nodes)) = Len(g.nodes)
            /\ {{e[1], e[2]} : e \in Range(edge_list)}
                   = {{l[1], l[2]} : l \in Range(line_list)}
            /\ Cardinality({{e[1], e[2]} : e \in Range(edge_list)}) = Len(edge_list)
            /\ DOMAIN g.adj = Range(g.nodes)
            /\ \A u \in Range(g.nodes), v \in Range(g.nodes) :
                  /\ v \in Range(g.adj[u]) <=> u \in Range(g.adj[v])
                  /\ v \in Range(g.adj[u]) <=> \E l \in Range(line_list) : {l[1], l[2]} = {u, v}
                  /\ v \in Range(g.adj[u]) <=> <<u, v>> \in DOMAIN g.weight
                  /\ v \in Range(g.adj[u]) =>
                        g.weight[<<u, v>>] = Manhattan(u, v) /\ g.weight[<<v, u>>] = Manhattan(u, v)
            /\ g = lines_to_graph(WithoutRepeats(line_list))
            /\ line_list = << <<<<0, 0>>, <<3, 4>>>> >> => g.weight[<<<<0, 0>>, <<3, 4>>>>] = 7

\* C12 witness: a graph built from a list that repeats a segment in the
\* opposite orientation next to another segment
C12_RepeatedSegmentBuilt ==
    /\ line_graph.kind = "graph"
    /\ Len(line_list) = MaxLines
    /\ \E i, j \in DOMAIN line_list :
          /\ i < j
          /\ line_list[i][1] # line_list[i][2]
          /\ line_list[j] = <<line_list[i][2], line_list[i][1]>>
    /\ Len(GraphEdges(line_graph.value)) = 2

-----------------------------------------------------------------------------
(* ten_builder.build_ten called on its own, on a graph of lines_to_graph and *)
(* candidate paths that are simple sequences of coordinates, on the graph's   *)
(* edges or not.                                                              *)

MaxTenLines == 2

TenGraphs == {lines_to_graph(l) : l \in UNION {[1..n -> GraphSegs] : n \in 0..MaxTenLines}}

\* simple paths: no coordinate twice
CandidatePaths ==
    {p \in UNION {[1..n -> GraphCoords] : n \in 1..Cardinality(GraphCoords)} :
        \A i, j \in DOMAIN p : i # j => p[i] # p[j]}

\* no agent, one agent with one or two paths, or two agents with one path each
CandidateDicts ==
    {<<>>} \cup {<<<<p>>>> : p \in CandidatePaths}
           \cup {<<<<p, q>>>> : p \in CandidatePaths, q \in CandidatePaths}
           \cup {<<<<p>>, <<q>>>> : p \in CandidatePaths, q \in CandidatePaths}

TenInit ==
    /\ ten_input \in [graph : TenGraphs, paths_per_agent : CandidateDicts]
    /\ ten_output = NoResult
    /\ GraphIdle
    /\ EditorIdle
    /\ reservation = EmptyMap
    /\ SolverIdle
    /\ TableIdle
    /\ IoIdle
    /\ PlanIdle

BuildTen ==
    /\ ten_output = NoResult
    /\ ten_output' = [kind |-> "ten",
                       value |-> build_ten(ten_input.graph, ten_input.paths_per_agent)]
    /\ UNCHANGED <<ten_input, line_list, line_graph, editorVars, plan_out, solverVars,
                   reservation, tableVars, ioVars>>

TenNext == BuildTen

TenSpec == TenInit /\ [][TenNext]_vars

\* the candidate paths of all agents
AllCandidates(ppa) == UNION {Range(ppa[a]) : a \in DOMAIN ppa}

\* C13: build_ten returns the horizon H equal to the number of coordinates of
\* the longest candidate path over all agents, and the network holds the node
\* (c, t) for every coordinate c of the base graph and every t in 0..H (one
\* agent with a single candidate path of 3 coordinates: H = 3 and the layers
\* t = 0, 1, 2, 3 exist).
C13_HorizonAndLayers ==
    ten_output.kind = "ten" =>
        LET ten == ten_output.value
            cands == AllCandidates(ten_input.paths_per_agent)
            H == ten.horizon
        IN  /\ \A p \in cands : Len(p) <= H
            /\ cands # {} => \E p \in cands : Len(p) = H
            /\ cands = {} => H = 0
            /\ \A c \in Range(ten_input.graph.nodes), t \in 0..H : <<c, t>> \in ten.nodes
            /\ \A n \in ten.nodes : n[1] \in Range(ten_input.graph.nodes) /\ n[2] \in 0..H
            /\ (Len(ten_input.paths_per_agent) = 1 /\ Len(ten_input.paths_per_agent[1]) = 1
                   /\ Len(ten_input.paths_per_agent[1][1]) = 3) =>
                  /\ H = 3
                  /\ {n[2] : n \in ten.nodes} = IF ten_input.graph.nodes = <<>> THEN {} ELSE {0, 1, 2, 3}

\* C13 witness: the network of one agent's single candidate path of three
\* coordinates over a graph that has nodes
C13_ThreeCoordinatePathBuilt ==
    /\ ten_output.kind = "ten"
    /\ Len(ten_input.paths_per_agent) = 1
    /\ Len(ten_input.paths_per_agent[1]) = 1
    /\ Len(ten_input.paths_per_agent[1][1]) = 3
    /\ Len(ten_input.graph.nodes) = 3
    /\ ten_output.value.horizon = 3

\* the base edges, in both directions, that a candidate path steps across in
\* either direction
UsedEdges(g, ppa) ==
    {e \in DOMAIN g.weight :
        /\ e[1] # e[2]
        /\ \E c \in AllCandidates(ppa) : \E n \in 1..(Len(c) - 1) : {c[n], c[n + 1]} = {e[1], e[2]}}

\* C18: the network build_ten returns has, for each t in [0, H), one wait
\* edge (c, t) -> (c, t + 1) of weight 1 for every coordinate c of the base
\* graph, and a move edge (u, t) -> (v, t + 1) of the base edge's weight
\* exactly when {u, v} is a base edge that a candidate path steps across in
\* either direction, in both directions; it has no other edge, and every edge
\* has capacity 1.
C18_WaitAndMoveEdges ==
    ten_output.kind = "ten" =>
        LET ten == ten_output.value
            g == ten_input.graph
            expected == {<<c, t, c>> : c \in Range(g.nodes), t \in 0..(ten.horizon - 1)}
                        \cup {<<e[1], t, e[2]>> : e \in UsedEdges(g, ten_input.paths_per_agent),
                                                   t \in 0..(ten.horizon - 1)}
        IN  /\ DOMAIN ten.weight = expected
            /\ DOMAIN ten.capacity = expected
            /\ \A e \in expected :
                  /\ ten.weight[e] = IF e[1] = e[3] THEN 1 ELSE g.weight[<<e[1], e[3]>>]
                  /\ ten.capacity[e] = 1
            /\ \A n \in ten.nodes :
                  /\ Range(ten.succ[n]) = {v \in Range(g.nodes) : <<n[1], n[2], v>> \in expected}
                  /\ Len(ten.succ[n]) = Cardinality(Range(ten.succ[n]))

\* C18 witness: a network over a graph of two lines, one of them stepped
\* across by a candidate path against the direction it was drawn in and the
\* other by none
C18_ReverseAndUnusedEdgeBuilt ==
    /\ ten_output.kind = "ten"
    /\ ten_output.value.horizon >= 2
    /\ \E e \in UsedEdges(ten_input.graph, ten_input.paths_per_agent) :
          /\ <<e[1], e[2]>> \notin AllowedEdges(ten_input.paths_per_agent)
          /\ <<e[1], 0, e[2]>> \in DOMAIN ten_output.value.weight
    /\ \E e \in DOMAIN ten_input.graph.weight :
          /\ e[1] # e[2]
          /\ e \notin UsedEdges(ten_input.graph, ten_input.paths_per_agent)
          /\ <<e[1], 0, e[2]>> \notin DOMAIN ten_output.value.weight

-----------------------------------------------------------------------------
(* map_editor.MapEditor: the editor object as a record of its fields, the    *)
(* canvas as a map from item handle to screen coordinates, and one operator  *)
(* per event handler. The view is unscrolled at zoom 1.0, so screen and world *)
(* coordinates coincide. A handler gives the editor it leaves and whether it  *)
(* raised; Tk reports an exception of a handler and carries on.               *)

NoPoint == <<>>

\* the place of an agent's name among the names
NameOrder(n) == CASE n = "A" -> 1 [] n = "B" -> 2 [] OTHER -> 3

NoItem == -1

\* the lines draw_grid keeps on the canvas (tag "grid"), which belong to no list
GridItem == 0

Last(seq) == seq[Len(seq)]

\* a mutation of Front that pops the first item of a list
Rest(seq) == Tail(seq)

\* list.pop()
Front(seq) == SubSeq(seq, 1, Len(seq) - 1)

\* list.pop(i) for a valid index, counted from 1
RemoveAt(seq, i) == SubSeq(seq, 1, i - 1) \o SubSeq(seq, i + 1, Len(seq))

\* list.remove(x) for an x in the list
RemoveFirst(seq, x) == RemoveAt(seq, IndexOf(seq, x))

\* dict.pop(key, None), canvas.delete(item)
Without(m, key) == [x \in DOMAIN m \ {key} |-> m[x]]

\* a mutation of PyRound that cuts the quotient off
FloorRound(num, den) == num \div den

\* round(num / den) for den > 0: the nearest integer, a tie goes to the even one
PyRound(num, den) ==
    LET q == num \div den
        r == num - q * den
    IN  IF 2 * r < den THEN q
        ELSE IF 2 * r > den THEN q + 1
        ELSE IF q % 2 = 0 THEN q ELSE q + 1

snap(e, x, y) ==
    <<e.grid_size * PyRound(x, e.grid_size), e.grid_size * PyRound(y, e.grid_size)>>

to_world(e, x, y) == <<x, y>>

to_screen(e, x, y) == <<x, y>>

\* the names of a set in alphabetical order
RECURSIVE SortedNames(_)
SortedNames(S) ==
    IF S = {} THEN <<>>
    ELSE LET first == CHOOSE n \in S : \A m \in S : NameOrder(n) <= NameOrder(m)
         IN  <<first>> \o SortedNames(S \ {first})

DefaultLayer == [name |-> "Default", color |-> "#000000", visible |-> TRUE]

NoWriters == [lines |-> <<>>, nodes |-> <<>>, obstacles |-> <<>>]

\* MapEditor.__init__; drawn_for and written_by are no fields of the editor:
\* they record, for each canvas item drawn for a geometry record, the kind and
\* the id of the meta appended with it, and for each entry of a geometry list
\* the canvas item whose geometry was written there
NewEditor ==
    [mode |-> "line",
     shape |-> "None",
     shape_w |-> 40,
     shape_h |-> 40,
     grid_size |-> 40,
     layers |-> <<DefaultLayer>>,
     layer_var |-> "Default",
     lines |-> <<>>,
     line_meta |-> <<>>,
     nodes |-> <<>>,
     node_meta |-> <<>>,
     obstacles |-> <<>>,
     obstacle_meta |-> <<>>,
     agents |-> EmptyMap,
     history |-> <<>>,
     item_map |-> EmptyMap,
     layer_items |-> ("Default" :> <<>>),
     next_id |-> 1,
     line_start |-> NoPoint,
     rect_start |-> NoPoint,
     selected_item |-> NoItem,
     canvas |-> EmptyMap,
     next_item |-> 1,
     button_down |-> FALSE,
     drawn_for |-> EmptyMap,
     written_by |-> NoWriters]

get_layer(e, name) ==
    IF \E i \in DOMAIN e.layers : e.layers[i].name = name
    THEN e.layers[CHOOSE i \in DOMAIN e.layers :
                     /\ e.layers[i].name = name
                     /\ \A j \in DOMAIN e.layers : e.layers[j].name = name => i <= j]
    ELSE e.layers[1]

GeometryKinds == {"line", "node", "obstacle"}

\* the geometry list of a kind and its meta list
ListOf(kind) == CASE kind = "line" -> "lines" [] kind = "node" -> "nodes" [] OTHER -> "obstacles"

MetaOf(kind) ==
    CASE kind = "line" -> "line_meta" [] kind = "node" -> "node_meta" [] OTHER -> "obstacle_meta"

Done(e) == [e |-> e, raised |-> FALSE]

Raised(e) == [e |-> e, raised |-> TRUE]

\* the block every tool repeats: create the canvas item, append the geometry
\* and its meta, and register the item under its layer, in item_map and in
\* history
Place(e, kind, geom, coords, style_key) ==
    LET layer == get_layer(e, e.layer_var)
        item == e.next_item
        meta == [id |-> e.next_id, layer |-> layer.name, attributes |-> EmptyMap,
                 style |-> (style_key :> layer.color)]
    IN  [e EXCEPT !.canvas = MapPut(@, item, coords),
                  !.next_item = @ + 1,
                  !.drawn_for = MapPut(@, item, <<kind, meta.id>>),
                  !.written_by[ListOf(kind)] = Append(@, item),
                  ![ListOf(kind)] = Append(@, geom),
                  ![MetaOf(kind)] = Append(@, meta),
                  !.layer_items = MapPut(@, layer.name, Append(Get(@, layer.name, <<>>), item)),
                  !.item_map = MapPut(@, item, <<kind, Len(e[ListOf(kind)])>>),
                  !.history = Append(@, <<kind, item, None>>),
                  !.next_id = @ + 1]

\* max(1, int(self.shape_w.get())), the same for shape_h
ShapeSize(v) == SetMax({1, v})

\* place_shape: the stamp of the Shape menu with its corner or centre at (x, y)
place_shape(e, x, y) ==
    LET w == ShapeSize(e.shape_w)
        h == ShapeSize(e.shape_h)
        line(d, a, b) ==
            Place(d, "line", <<a, b>>,
                  to_screen(d, a[1], a[2]) \o to_screen(d, b[1], b[2]), "color")
    IN  CASE e.shape = "H-Line" -> line(e, <<x, y>>, <<x + w, y>>)
          [] e.shape = "V-Line" -> line(e, <<x, y>>, <<x, y + h>>)
          [] e.shape = "Cross" ->
                line(line(e, <<x - (w \div 2), y>>, <<x + (w \div 2), y>>),
                     <<x, y - (h \div 2)>>, <<x, y + (h \div 2)>>)
          [] e.shape = "Obstacle" ->
                Place(e, "obstacle", <<x, y, x + w, y + h>>,
                      to_screen(e, x, y) \o to_screen(e, x + w, y + h), "fill")
          [] OTHER -> e

MarkerKinds == {"start", "goal"}

\* self.agents.setdefault(name, {})[kind] = p
PutSlot(slots, name, kind, p) ==
    MapPut(slots, name, MapPut(Get(slots, name, EmptyMap), kind, p))

\* a DropSlot that keeps the agent of which no slot remains
DropSlotOnly(slots, name, kind) ==
    IF name \notin DOMAIN slots THEN slots
    ELSE [slots EXCEPT ![name] = Without(@, kind)]

\* agent = self.agents.get(name, {}); agent.pop(kind, None); the agent goes
\* with its last slot
DropSlot(slots, name, kind) ==
    IF name \notin DOMAIN slots THEN slots
    ELSE IF DOMAIN slots[name] \subseteq {kind} THEN Without(slots, name)
    ELSE [slots EXCEPT ![name] = Without(@, kind)]

\* the start and goal tools: the marker of the agent the dialog names
PlaceMarker(e, kind, name, p, s) ==
    [e EXCEPT !.canvas = MapPut(@, e.next_item, <<s[1] - 4, s[2] - 4, s[1] + 4, s[2] + 4>>),
              !.next_item = @ + 1,
              !.agents = PutSlot(@, name, kind, p),
              !.item_map = MapPut(@, e.next_item, <<kind, name>>),
              !.history = Append(@, <<kind, e.next_item, name>>)]

\* ev: the pointer position, for the select tool the item find_closest gives,
\* and for the start and goal tools the name the dialog returns ("" if none)
on_click(e, ev) ==
    LET w == to_world(e, ev.x, ev.y)
        p == snap(e, w[1], w[2])
        s == to_screen(e, p[1], p[2])
    IN  CASE e.shape # "None" -> Done(place_shape(e, p[1], p[2]))
          [] e.mode \in MarkerKinds ->
                IF ev.name = "" THEN Done(e) ELSE Done(PlaceMarker(e, e.mode, ev.name, p, s))
          [] e.mode = "select" -> Done([e EXCEPT !.selected_item = ev.closest])
          [] e.mode = "line" /\ e.line_start = NoPoint -> Done([e EXCEPT !.line_start = p])
          [] e.mode = "line" /\ e.line_start # NoPoint ->
                LET s1 == to_screen(e, e.line_start[1], e.line_start[2])
                IN  Done([Place(e, "line", <<e.line_start, p>>, <<s1[1], s1[2], s[1], s[2]>>, "color")
                            EXCEPT !.line_start = NoPoint])
          [] e.mode = "node" ->
                Done(Place(e, "node", p, <<s[1] - 3, s[2] - 3, s[1] + 3, s[2] + 3>>, "color"))
          [] e.mode = "obstacle" -> Done([e EXCEPT !.rect_start = p])
          [] OTHER -> Done(e)

\* to_world followed by snap
Resnap(e, x, y) == snap(e, to_world(e, x, y)[1], to_world(e, x, y)[2])

\* the select branch of on_release: the item's canvas position is snapped and
\* written back to its geometry entry
MoveSelected(e) ==
    LET item == e.selected_item
        entry == Get(e.item_map, item, <<None, None>>)
        kind == entry[1]
        info == entry[2]
        coords == e.canvas[item]
        deselected(d) == [d EXCEPT !.selected_item = NoItem]
    IN  CASE kind = "line" ->
                LET a == Resnap(e, coords[1], coords[2])
                    b == Resnap(e, coords[3], coords[4])
                    moved == [e EXCEPT !.canvas[item] =
                                 to_screen(e, a[1], a[2]) \o to_screen(e, b[1], b[2])]
                IN  IF info < Len(e.lines)
                    THEN Done(deselected([moved EXCEPT !.lines[info + 1] = <<a, b>>,
                                                       !.written_by.lines[info + 1] = item]))
                    ELSE Raised(moved)
          [] kind = "node" ->
                LET r == (coords[3] - coords[1]) \div 2
                    c == Resnap(e, coords[1] + r, coords[2] + r)
                    sc == to_screen(e, c[1], c[2])
                    moved == [e EXCEPT !.canvas[item] =
                                 <<sc[1] - r, sc[2] - r, sc[1] + r, sc[2] + r>>]
                IN  IF info < Len(e.nodes)
                    THEN Done(deselected([moved EXCEPT !.nodes[info + 1] = c,
                                                       !.written_by.nodes[info + 1] = item]))
                    ELSE Raised(moved)
          [] kind = "obstacle" ->
                LET a == Resnap(e, coords[1], coords[2])
                    b == Resnap(e, coords[3], coords[4])
                    moved == [e EXCEPT !.canvas[item] =
                                 to_screen(e, a[1], a[2]) \o to_screen(e, b[1], b[2])]
                IN  IF info < Len(e.obstacles)
                    THEN Done(deselected([moved EXCEPT !.obstacles[info + 1] =
                            <<SetMin({a[1], b[1]}), SetMin({a[2], b[2]}),
                              SetMax({a[1], b[1]}), SetMax({a[2], b[2]})>>,
                            !.written_by.obstacles[info + 1] = item]))
                    ELSE Raised(moved)
          [] kind \in MarkerKinds ->
                LET size == (coords[3] - coords[1]) \div 2
                    c == Resnap(e, coords[1] + size, coords[2] + size)
                    sc == to_screen(e, c[1], c[2])
                IN  Done(deselected([e EXCEPT
                        !.canvas[item] = <<sc[1] - size, sc[2] - size, sc[1] + size, sc[2] + size>>,
                        !.agents = PutSlot(@, info, kind, c)]))
          [] OTHER -> Done(deselected(e))

\* an on_release that stores the obstacle's corners in the order they were drawn
ReleaseAsDrawn(e, ev) ==
    IF e.mode = "obstacle" /\ e.rect_start # NoPoint
    THEN LET p1 == e.rect_start
             p2 == Resnap(e, ev.x, ev.y)
         IN  Done([Place(e, "obstacle", p1 \o p2,
                         to_screen(e, p1[1], p1[2]) \o to_screen(e, p2[1], p2[2]), "fill")
                   EXCEPT !.rect_start = NoPoint])
    ELSE IF e.mode = "select" /\ e.selected_item # NoItem
    THEN MoveSelected(e)
    ELSE Done(e)

on_release(e, ev) ==
    IF e.mode = "obstacle" /\ e.rect_start # NoPoint
    THEN LET p1 == e.rect_start
             p2 == Resnap(e, ev.x, ev.y)
             s1 == to_screen(e, p1[1], p1[2])
             s2 == to_screen(e, p2[1], p2[2])
             rect == <<SetMin({p1[1], p2[1]}), SetMin({p1[2], p2[2]}),
                       SetMax({p1[1], p2[1]}), SetMax({p1[2], p2[2]})>>
         IN  Done([Place(e, "obstacle", rect, s1 \o s2, "fill") EXCEPT !.rect_start = NoPoint])
    ELSE IF e.mode = "select" /\ e.selected_item # NoItem
    THEN MoveSelected(e)
    ELSE Done(e)

undo(e) ==
    IF e.history = <<>> THEN Done(e)
    ELSE LET kind == Last(e.history)[1]
             item == Last(e.history)[2]
             e1 == [e EXCEPT !.history = Front(@),
                             !.canvas = Without(@, item),
                             !.item_map = Without(@, item)]
         IN  IF kind \in GeometryKinds /\ e1[ListOf(kind)] # <<>>
             THEN IF e1[MetaOf(kind)] = <<>> THEN Raised(e1)
                  ELSE LET meta == Last(e1[MetaOf(kind)])
                           e2 == [e1 EXCEPT ![MetaOf(kind)] = Front(@),
                                            ![ListOf(kind)] = Front(@),
                                            !.written_by[ListOf(kind)] = Front(@)]
                           members == Get(e2.layer_items, meta.layer, <<>>)
                       IN  IF item \in Range(members)
                           THEN Done([e2 EXCEPT !.layer_items[meta.layer] =
                                                   RemoveFirst(members, item)])
                           ELSE Raised(e2)
             ELSE IF kind \in MarkerKinds
             THEN Done([e1 EXCEPT !.agents = DropSlot(@, Last(e.history)[3], kind)])
             ELSE Done(e1)

delete_selected(e) ==
    IF e.selected_item = NoItem THEN Done(e)
    ELSE LET item == e.selected_item
             entry == Get(e.item_map, item, <<None, None>>)
             kind == entry[1]
             info == entry[2]
             e1 == [e EXCEPT !.item_map = Without(@, item), !.canvas = Without(@, item)]
         IN  IF kind \in GeometryKinds
             THEN IF info >= Len(e1[MetaOf(kind)]) THEN Raised(e1)
                  ELSE LET meta == e1[MetaOf(kind)][info + 1]
                           e2 == [e1 EXCEPT ![MetaOf(kind)] = RemoveAt(@, info + 1)]
                       IN  IF info >= Len(e2[ListOf(kind)]) THEN Raised(e2)
                           ELSE LET e3 == [e2 EXCEPT ![ListOf(kind)] = RemoveAt(@, info + 1),
                                                     !.written_by[ListOf(kind)] =
                                                         RemoveAt(@, info + 1)]
                                    members == Get(e3.layer_items, meta.layer, <<>>)
                                IN  IF item \notin Range(members) THEN Raised(e3)
                                    ELSE Done([e3 EXCEPT
                                           !.layer_items[meta.layer] = RemoveFirst(members, item),
                                           !.item_map = [h \in DOMAIN @ |->
                                                IF @[h][1] = kind /\ @[h][2] > info
                                                THEN <<kind, @[h][2] - 1>>
                                                ELSE @[h]],
                                           !.selected_item = NoItem])
             ELSE IF kind \in MarkerKinds
             THEN Done([e1 EXCEPT !.agents = DropSlot(@, info, kind), !.selected_item = NoItem])
             ELSE Done([e1 EXCEPT !.selected_item = NoItem])

\* a clear that keeps the undo history and the pending line start
ClearGeometry(e) ==
    [e EXCEPT !.canvas = EmptyMap,
              !.lines = <<>>,
              !.line_meta = <<>>,
              !.nodes = <<>>,
              !.node_meta = <<>>,
              !.obstacles = <<>>,
              !.obstacle_meta = <<>>,
              !.agents = EmptyMap,
              !.item_map = EmptyMap,
              !.layer_items = [n \in {e.layers[i].name : i \in DOMAIN e.layers} |-> <<>>],
              !.next_id = 1,
              !.rect_start = NoPoint,
              !.selected_item = NoItem,
              !.written_by = NoWriters]

clear(e) ==
    [e EXCEPT !.canvas = EmptyMap,
              !.lines = <<>>,
              !.line_meta = <<>>,
              !.nodes = <<>>,
              !.node_meta = <<>>,
              !.obstacles = <<>>,
              !.obstacle_meta = <<>>,
              !.agents = EmptyMap,
              !.history = <<>>,
              !.item_map = EmptyMap,
              !.layer_items = [n \in {e.layers[i].name : i \in DOMAIN e.layers} |-> <<>>],
              !.next_id = 1,
              !.line_start = NoPoint,
              !.rect_start = NoPoint,
              !.selected_item = NoItem,
              !.written_by = NoWriters]

\* v is None: max() over ids, and None + 1, raise TypeError
IsNone(v) == ToString(v) = ToString(None)

\* the geometry of a loaded item as the editor unpacks it into plain tuples
Unpacked(kind, item) ==
    IF kind = "line" THEN <<item.val[1].val, item.val[2].val>> ELSE item.val

\* the canvas coordinates load draws an item of a kind at
DrawnAt(e, kind, geom) ==
    CASE kind = "line" ->
            to_screen(e, geom[1][1], geom[1][2]) \o to_screen(e, geom[2][1], geom[2][2])
      [] kind = "node" ->
            LET sc == to_screen(e, geom[1], geom[2])
            IN  <<sc[1] - 3, sc[2] - 3, sc[1] + 3, sc[2] + 3>>
      [] OTHER -> to_screen(e, geom[1], geom[2]) \o to_screen(e, geom[3], geom[4])

\* one pass of a loop of load over zip(geometry, meta): the item is drawn and
\* registered under the layer get_layer finds for the meta's layer name
RECURSIVE LoadItems(_, _, _, _, _)
LoadItems(e, kind, geoms, metas, i) ==
    IF i > Len(geoms) \/ i > Len(metas) THEN e
    ELSE LET geom == Unpacked(kind, geoms[i])
             layer == get_layer(e, metas[i].layer)
             item == e.next_item
         IN  LoadItems([e EXCEPT
                 !.canvas = MapPut(@, item, DrawnAt(e, kind, geom)),
                 !.next_item = @ + 1,
                 !.drawn_for = MapPut(@, item, <<kind, metas[i].id>>),
                 !.written_by[ListOf(kind)] = Append(@, item),
                 ![ListOf(kind)] = Append(@, geom),
                 ![MetaOf(kind)] = Append(@, metas[i]),
                 !.layer_items = MapPut(@, layer.name, Append(Get(@, layer.name, <<>>), item)),
                 !.item_map = MapPut(@, item, <<kind, Len(e[ListOf(kind)])>>),
                 !.history = Append(@, <<kind, item, None>>)],
               kind, geoms, metas, i + 1)

\* the names of a dict in the order load goes through them, the file's order,
\* here the alphabetical one
NamesOf(spec) == SortedNames(DOMAIN spec)

\* the loop of load over the agents: an entry per agent, a marker per slot
RECURSIVE LoadMarkers(_, _, _, _)
LoadMarkers(e, spec, names, i) ==
    IF i > Len(names) THEN e
    ELSE LET name == names[i]
             e0 == [e EXCEPT !.agents = MapPut(@, name, EmptyMap)]
             marked(d, kind) ==
                 IF kind \in DOMAIN spec[name]
                 THEN LET p == spec[name][kind].val
                      IN  PlaceMarker(d, kind, name, p, to_screen(d, p[1], p[2]))
                 ELSE d
         IN  LoadMarkers(marked(marked(e0, "start"), "goal"), spec, names, i + 1)

\* load: data is what load_map returned for the file
load(e, data) ==
    LET e1 == [clear(e) EXCEPT
                  !.layers = data.layers,
                  !.layer_var = data.layers[1].name,
                  !.layer_items = [n \in {data.layers[i].name : i \in DOMAIN data.layers} |-> <<>>]]
        metas == data.line_meta \o data.node_meta \o data.obstacle_meta
        ids == {metas[i].id : i \in DOMAIN metas}
    IN  IF \E i \in DOMAIN metas : IsNone(metas[i].id) THEN Raised(e1)
        ELSE LET e2 == IF metas = <<>> THEN e1 ELSE [e1 EXCEPT !.next_id = SetMax(ids) + 1]
                 e3 == LoadItems(e2, "line", data.lines, data.line_meta, 1)
                 e4 == LoadItems(e3, "node", data.nodes, data.node_meta, 1)
                 e5 == LoadItems(e4, "obstacle", data.obstacles, data.obstacle_meta, 1)
             IN  Done(LoadMarkers(e5, data.agents, NamesOf(data.agents), 1))

MinGrid == 5

\* entry: what the Grid box holds, <<v>> for an integer v and <<>> for other text
update_grid(e, entry) ==
    IF entry = <<>> THEN e ELSE [e EXCEPT !.grid_size = SetMax({MinGrid, entry[1]})]

-----------------------------------------------------------------------------
(* An editor session: presses and releases of the pointer on the canvas, in  *)
(* turn, and the toolbar's tool buttons, Undo, Delete, Clear and the Grid    *)
(* box, which the keyboard works also while the pointer's button is down.    *)

MaxHandles == 2

ClickPoints == {<<41, 79>>, <<1, 81>>}

Tools == {"select", "line", "node", "obstacle"}

GridEntries == {<<>>, <<1>>, <<40>>}

EditorInit ==
    /\ editor = NewEditor
    /\ ed_last = NoEvent
    /\ ed_before = NoEditor
    /\ BuilderIdle
    /\ reservation = EmptyMap
    /\ SolverIdle
    /\ TableIdle
    /\ IoIdle
    /\ PlanIdle

otherVars == <<builderVars, solverVars, reservation, tableVars, ioVars, plan_out>>

\* the kind of the item a handler placed, "" if it placed none
PlacedBy(e, after) ==
    IF after.next_item = e.next_item THEN "" ELSE after.item_map[e.next_item][1]

\* an event that places nothing and is not an undo
Other(op, raised) ==
    /\ ed_last' = [op |-> op, placed |-> "", point |-> <<>>, snapped |-> <<>>, raised |-> raised]
    /\ ed_before' = NoEditor

SetMode(tool) ==
    /\ editor # NoEditor
    /\ tool # editor.mode
    /\ editor' = [editor EXCEPT !.mode = tool]
    /\ Other("mode", FALSE)
    /\ UNCHANGED otherVars

Press(pt, closest) ==
    /\ editor # NoEditor
    /\ ~editor.button_down
    /\ LET r == on_click(editor, [x |-> pt[1], y |-> pt[2], closest |-> closest, name |-> ""])
       IN  /\ r.e.next_item <= MaxHandles + 1
           /\ editor' = [r.e EXCEPT !.button_down = TRUE]
           /\ ed_last' = [op |-> "press", placed |-> PlacedBy(editor, r.e), point |-> <<>>,
                          snapped |-> <<>>, raised |-> r.raised]
           /\ ed_before' = IF PlacedBy(editor, r.e) # "" THEN editor ELSE NoEditor
    /\ UNCHANGED otherVars

Release(pt) ==
    /\ editor # NoEditor
    /\ editor.button_down
    /\ LET r == on_release(editor, [x |-> pt[1], y |-> pt[2]])
           placed == IF ed_last.op = "press" /\ ed_last.placed # "" THEN ed_last.placed
                     ELSE PlacedBy(editor, r.e)
       IN  /\ r.e.next_item <= MaxHandles + 1
           /\ editor' = [r.e EXCEPT !.button_down = FALSE]
           /\ ed_last' = [op |-> "release", placed |-> placed, point |-> <<>>,
                          snapped |-> <<>>, raised |-> r.raised]
           /\ ed_before' = IF PlacedBy(editor, r.e) # "" THEN [editor EXCEPT !.button_down = FALSE]
                           ELSE IF placed # "" THEN [ed_before EXCEPT !.button_down = FALSE]
                           ELSE NoEditor
    /\ UNCHANGED otherVars

Undo ==
    /\ editor # NoEditor
    /\ LET r == undo(editor)
       IN  /\ editor' = r.e
           /\ ed_last' = [op |-> "undo",
                          placed |-> IF ed_last.op = "release" THEN ed_last.placed ELSE "",
                          point |-> <<>>, snapped |-> <<>>, raised |-> r.raised]
           /\ ed_before' = IF ed_last.op = "release" /\ ed_last.placed # ""
                           THEN ed_before ELSE NoEditor
    /\ UNCHANGED otherVars

DeleteSelected ==
    /\ editor # NoEditor
    /\ LET r == delete_selected(editor)
       IN  editor' = r.e /\ Other("delete", r.raised)
    /\ UNCHANGED otherVars

Clear ==
    /\ editor # NoEditor
    /\ editor' = clear(editor)
    /\ Other("clear", FALSE)
    /\ UNCHANGED otherVars

UpdateGrid(entry) ==
    /\ editor # NoEditor
    /\ editor' = update_grid(editor, entry)
    /\ Other("grid", FALSE)
    /\ UNCHANGED otherVars

EditorNext ==
    \/ \E tool \in Tools : SetMode(tool)
    \/ \E pt \in ClickPoints :
          \E closest \in (IF editor.mode = "select"
                          THEN DOMAIN editor.canvas \cup {GridItem} ELSE {NoItem}) :
             Press(pt, closest)
    \/ \E pt \in ClickPoints : Release(pt)
    \/ Undo
    \/ DeleteSelected
    \/ Clear
    \/ \E entry \in GridEntries : UpdateGrid(entry)

EditorSpec == EditorInit /\ [][EditorNext]_vars

\* C15: in any editor state, placing one geometry item (a line by two
\* clicks, a node, or an obstacle by press and release) and then invoking undo
\* once restores the item's geometry list and its meta list to their length and
\* contents before the placement, removes the id-lookup entry created for the
\* item, and restores the history stack to its contents before the placement.
C15_UndoRevertsPlacement ==
    (ed_last.op = "undo" /\ ed_last.placed # "") =>
        /\ ~ed_last.raised
        /\ \A kind \in GeometryKinds :
              /\ editor[ListOf(kind)] = ed_before[ListOf(kind)]
              /\ editor[MetaOf(kind)] = ed_before[MetaOf(kind)]
        /\ ed_before.next_item \notin DOMAIN editor.item_map
        /\ editor.item_map = ed_before.item_map
        /\ editor.history = ed_before.history

\* C15 witness: an item placed and undone in an editor that held another item
\* whose history entry an earlier Delete had left behind
C15_PlacedAndUndone ==
    /\ ed_last.op = "undo"
    /\ ed_last.placed \in GeometryKinds
    /\ ed_before.history # <<>>
    /\ Len(ed_before.history) > Cardinality(DOMAIN ed_before.item_map)
    /\ editor.next_item = ed_before.next_item + 1

-----------------------------------------------------------------------------
(* MapEditor.snap called on its own, on every world point of a square around *)
(* the origin and under every grid spacing the Grid box can set.             *)

MaxWorld == 60

MaxGridEntry == 12

\* the default spacing and the spacings update_grid makes of the entries 1..MaxGridEntry
SnapEditors == {NewEditor} \cup {update_grid(NewEditor, <<v>>) : v \in 1..MaxGridEntry}

SnapInit ==
    /\ editor \in SnapEditors
    /\ ed_last = NoEvent
    /\ ed_before = NoEditor
    /\ BuilderIdle
    /\ reservation = EmptyMap
    /\ SolverIdle
    /\ TableIdle
    /\ IoIdle
    /\ PlanIdle

Snap(x, y) ==
    /\ ed_last' = [op |-> "snap", placed |-> "", point |-> <<x, y>>,
                   snapped |-> snap(editor, x, y), raised |-> FALSE]
    /\ UNCHANGED <<editor, ed_before, otherVars>>

\* one call in a run
SnapNext ==
    /\ ed_last = NoEvent
    /\ \E x \in -MaxWorld..MaxWorld, y \in -MaxWorld..MaxWorld : Snap(x, y)

SnapSpec == SnapInit /\ [][SnapNext]_vars

Distance(a, b) == IF a >= b THEN a - b ELSE b - a

\* C14: snap maps each axis value c on its own to a multiple m of the grid
\* spacing g with |c - m| <= g/2, the nearest grid intersection; with g = 40
\* the world point (53, 22) snaps to (40, 40).
C14_SnapToNearest ==
    ed_last.op = "snap" =>
        LET g == editor.grid_size
        IN  /\ \A i \in 1..2 :
                  LET c == ed_last.point[i]
                      m == ed_last.snapped[i]
                  IN  /\ m % g = 0
                      /\ 2 * Distance(c, m) <= g
                      /\ Distance(c, m) <= Distance(c, m - g)
                      /\ Distance(c, m) <= Distance(c, m + g)
            /\ (g = 40 /\ ed_last.point = <<53, 22>>) => ed_last.snapped = <<40, 40>>

\* C14 witness: (53, 22) snapped under spacing 40
C14_ExampleSnapped ==
    /\ ed_last.op = "snap"
    /\ editor.grid_size = 40
    /\ ed_last.point = <<53, 22>>
    /\ ed_last.snapped = <<40, 40>>

-----------------------------------------------------------------------------
(* A longer editor session at one pointer position and one grid spacing: the *)
(* line tool the editor opens with, the select, node and goal tools, the      *)
(* Cross stamp of the Shape menu, dragging a selected item, Undo, Delete,      *)
(* Clear and Load of a map file. The pointer works the toolbar between a      *)
(* release and the next press; Delete is also worked from the keyboard while  *)
(* the button is down on a selected item.                                     *)

MaxSessionItems == 3

MaxDragX == 80

SessionPoint == <<41, 79>>

DragBy == <<40, 0>>

SessionTools == {"select", "node", "goal"}

SessionShapes == {"None", "Cross"}

SessionNames == {"", "A"}

ZoneLayer == [name |-> "Zone", color |-> "#ff0000", visible |-> FALSE]

\* the map files of the session: a legacy file with a line and a node, a
\* canonical file with an item on a second layer and an agent, a file with an
\* obstacle and a line that names a layer the file does not list, and a file
\* whose line has no id
SessionFiles ==
    {[lines |-> <<ListLine(<<<<0, 0>>, <<40, 0>>>>)>>, nodes |-> <<PyList(<<0, 0>>)>>],
     [layers |-> <<DefaultLayer, ZoneLayer>>,
      nodes |-> <<PyDict([point |-> PyList(<<40, 40>>), id |-> 7, layer |-> "Zone"])>>,
      agents |-> [A |-> [start |-> PyList(<<0, 0>>), goal |-> PyList(<<40, 0>>)]]],
     [lines |-> <<PyDict([points |-> ListLine(<<<<0, 0>>, <<40, 0>>>>), id |-> 1,
                          layer |-> "Zone"])>>,
      obstacles |-> <<PyDict([rect |-> PyList(<<0, 0, 40, 40>>), id |-> 2])>>],
     [lines |-> <<PyDict([points |-> ListLine(<<<<0, 0>>, <<40, 0>>>>)])>>]}

SessionInit ==
    /\ editor = NewEditor
    /\ ed_last = NoEvent
    /\ ed_before = NoEditor
    /\ BuilderIdle
    /\ reservation = EmptyMap
    /\ SolverIdle
    /\ TableIdle
    /\ IoIdle
    /\ PlanIdle

\* what a handler leaves; Tk reports its exception, if any, and carries on
Handled(r) ==
    /\ r.e.next_item <= MaxSessionItems + 1
    /\ editor' = r.e
    /\ ed_last' = NoEvent
    /\ ed_before' = NoEditor
    /\ UNCHANGED otherVars

\* the same for Clear and Load, with a note of the handler and of the editor
\* it was invoked on
Noted(op, r) ==
    /\ r.e.next_item <= MaxSessionItems + 1
    /\ editor' = r.e
    /\ ed_last' = [NoEvent EXCEPT !.op = op, !.raised = r.raised]
    /\ ed_before' = editor
    /\ UNCHANGED otherVars

SessionMode(tool) ==
    /\ ~editor.button_down
    /\ tool # editor.mode
    /\ Handled(Done([editor EXCEPT !.mode = tool]))

SessionShape(shape) ==
    /\ ~editor.button_down
    /\ shape # editor.shape
    /\ Handled(Done([editor EXCEPT !.shape = shape]))

SessionPress(closest, name) ==
    /\ ~editor.button_down
    /\ LET r == on_click(editor, [x |-> SessionPoint[1], y |-> SessionPoint[2],
                                  closest |-> closest, name |-> name])
       IN  Handled([r EXCEPT !.e.button_down = TRUE])

\* on_drag: canvas.move(self.selected_item, dx, dy)
on_drag(e, dx, dy) ==
    IF e.mode = "select" /\ e.selected_item \in DOMAIN e.canvas
    THEN [e EXCEPT !.canvas[e.selected_item] = <<@[1] + dx, @[2] + dy, @[3] + dx, @[4] + dy>>]
    ELSE e

SessionDrag ==
    /\ editor.button_down
    /\ editor.mode = "select"
    /\ editor.selected_item \in DOMAIN editor.canvas
    /\ editor.canvas[editor.selected_item][1] + DragBy[1] <= MaxDragX
    /\ Handled(Done(on_drag(editor, DragBy[1], DragBy[2])))

SessionRelease ==
    /\ editor.button_down
    /\ LET r == on_release(editor, [x |-> SessionPoint[1], y |-> SessionPoint[2]])
       IN  Handled([r EXCEPT !.e.button_down = FALSE])

SessionUndo == ~editor.button_down /\ Handled(undo(editor))

SessionDelete == Handled(delete_selected(editor))

SessionClear == ~editor.button_down /\ Handled(Done(clear(editor)))

SessionLoad(f) == ~editor.button_down /\ Noted("load", load(editor, load_map(f)))

SessionNext ==
    \/ \E tool \in SessionTools : SessionMode(tool)
    \/ \E shape \in SessionShapes : SessionShape(shape)
    \/ \E closest \in (IF editor.mode = "select" /\ editor.shape = "None"
                       THEN DOMAIN editor.canvas \cup {GridItem} ELSE {NoItem}) :
          \E name \in (IF editor.mode \in MarkerKinds /\ editor.shape = "None"
                       THEN SessionNames ELSE {""}) :
             SessionPress(closest, name)
    \/ SessionDrag
    \/ SessionRelease
    \/ SessionUndo
    \/ SessionDelete
    \/ SessionClear
    \/ \E f \in SessionFiles : SessionLoad(f)

SessionSpec == SessionInit /\ [][SessionNext]_vars

\* every geometry list is as long as its meta list
SameLengths(e) == \A kind \in GeometryKinds : Len(e[ListOf(kind)]) = Len(e[MetaOf(kind)])

\* C24: in every state of an editor session each geometry list is as long as
\* its meta list, and the i-th meta belongs to the i-th geometry entry: the
\* geometry in the entry is that of the canvas item the meta was appended for.
C24_MetaBesideItsGeometry ==
    /\ SameLengths(editor)
    /\ \A kind \in GeometryKinds : \A i \in DOMAIN editor[MetaOf(kind)] :
          editor.drawn_for[editor.written_by[ListOf(kind)][i]] =
              <<kind, editor[MetaOf(kind)][i].id>>

\* the part of C24 on the lengths of the lists
C24_ListsOfEqualLength == SameLengths(editor)

-----------------------------------------------------------------------------
(* cli: the plan command. It loads the map file, builds the graph of its     *)
(* lines, keeps the agents that have a start and a goal, runs cbm_solve and   *)
(* writes the paths returned with save_paths.                                 *)

\* save_paths: {"paths": {k: [list(coord) for coord in v]}}
save_paths(ags, ps) ==
    [paths |-> [name \in {ags[i].name : i \in DOMAIN ags} |->
                  LET i == CHOOSE j \in DOMAIN ags : ags[j].name = name
                  IN  [n \in DOMAIN ps[i] |-> PyList(ps[i][n])]]]

\* the names of the agents with a start and a goal
WithBoth(spec) == {name \in DOMAIN spec : {"start", "goal"} \subseteq DOMAIN spec[name]}

\* the sequences that hold every element of S once
Orders(S) == {o \in [1..Cardinality(S) -> S] : Range(o) = S}

\* the map files the command is run on
PlanCoords == {<<0, 0>>, <<40, 0>>, <<40, 40>>}

PlanSpecs ==
    {EmptyMap} \cup [start : PlanCoords] \cup [goal : {<<0, 0>>, <<40, 0>>}]
    \cup [start : PlanCoords, goal : {<<0, 0>>, <<40, 0>>}]

PlanAgents == UNION {[names -> PlanSpecs] : names \in SUBSET Range(AgentNames)}

PlanContents ==
    [lines : UNION {[1..n -> IoLines] : n \in 0..MaxItems},
     nodes : {<<>>},
     obstacles : {<<>>},
     first_id : {1},
     styled : {FALSE},
     layers : {DefaultLayers},
     agents : PlanAgents]

PlanFiles == UNION {{CanonicalFileOf(c), LegacyFileOf(c)} : c \in PlanContents}

PlanInit ==
    /\ file \in PlanFiles
    /\ map_data = EmptyMap
    /\ origin = [kind |-> "file", value |-> file]
    /\ io_ops = <<>>
    /\ resolution = 0
    /\ grid = <<>>
    /\ graph = EmptyGraph
    /\ agents = <<>>
    /\ k \in 1..MaxK
    /\ ksp_reversed = FALSE
    /\ constraints = EmptyMap
    /\ paths = <<>>
    /\ conflict = NoConflict
    /\ pc = "off"
    /\ iter = 0
    /\ TableOff
    /\ ExtIdle

\* data = load_map(args.input), graph = lines_to_graph(data["lines"]), the
\* agents dict of those with "start" and "goal", in the order of the file, and
\* the first lines of cbm_solve
PlanLoad ==
    /\ pc = "off"
    /\ io_ops = <<>>
    /\ map_data' = load_map(file)
    /\ io_ops' = <<"load">>
    /\ graph' = lines_to_graph([i \in DOMAIN map_data'.lines |->
                                  <<map_data'.lines[i].val[1].val, map_data'.lines[i].val[2].val>>])
    /\ \E order \in Orders(WithBoth(map_data'.agents)) :
          agents' = [i \in DOMAIN order |->
                       [name |-> order[i],
                        start |-> map_data'.agents[order[i]].start.val,
                        goal |-> map_data'.agents[order[i]].goal.val]]
    /\ ksp_reversed' \in {r \in BOOLEAN : r => HasTies(graph')}
    /\ constraints' = [a \in WithBoth(map_data'.agents) |-> {}]
    /\ pc' = "loop"
    /\ UNCHANGED <<k, paths, conflict, iter, reservation, tableVars, file, origin, resolution,
                   grid, extVars>>

\* one iteration of cbm_solve; save_paths(paths, args.output) when it returns
PlanIterate ==
    /\ pc = "loop"
    /\ iter' = iter + 1
    /\ UNCHANGED <<graph, agents, k, ksp_reversed>>
    /\ \E it \in Iteration :
          \/ CbmRaise(it) /\ UNCHANGED plan_out
          \/ CbmReturn(it) /\ plan_out' = [kind |-> "paths", value |-> save_paths(agents, it.paths)]
          \/ CbmConflict(it) /\ UNCHANGED plan_out
    /\ UNCHANGED <<tableVars, ioVars, builderVars, editorVars>>

PlanNext == PlanLoad \/ PlanIterate

PlanSpec == PlanInit /\ [][PlanNext]_vars

\* C16: the plan command plans the agents of the map that have a start and a
\* goal and no other: an agent without one of them is dropped without an
\* error, and the paths written to the output have these agents as their
\* keys, on every map, one where no agent has both included.
C16_PlansAgentsWithBoth ==
    LET both == WithBoth(Get(file, "agents", EmptyMap))
    IN  /\ pc # "off" => {agents[i].name : i \in DOMAIN agents} = both
        /\ plan_out.kind = "paths" => DOMAIN plan_out.value.paths = both
        /\ (pc # "off" /\ both = {}) => pc # "error"

-----------------------------------------------------------------------------
(* mcf_solver._detect_conflict called on a path mapping, as cbm_solve calls  *)
(* it on what solve_mcf returns: a path per agent, each with its start at     *)
(* least; the mapping of no agent is what the plan command gets when no       *)
(* agent of the map has a start and a goal.                                   *)

MaxDetectAgents == 3

MaxDetectLen == 3

DetectNames == <<"A", "B", "C", "D">>

DetectCoords == {<<0, 0>>, <<40, 0>>}

DetectPaths == UNION {[1..n -> DetectCoords] : n \in 1..MaxDetectLen}

DetectInit ==
    /\ \E n \in 0..MaxDetectAgents :
          /\ paths \in [1..n -> DetectPaths]
          /\ agents = [i \in 1..n |-> [name |-> DetectNames[i], start |-> paths[i][1],
                                       goal |-> paths[i][Len(paths[i])]]]
    /\ conflict = NoConflict
    /\ pc = "detect"
    /\ graph = EmptyGraph
    /\ k = 0
    /\ ksp_reversed = FALSE
    /\ constraints = EmptyMap
    /\ iter = 0
    /\ TableOff
    /\ IoIdle
    /\ ExtIdle

\* max() of no length raises ValueError
DetectRaise ==
    /\ pc = "detect"
    /\ paths = <<>>
    /\ pc' = "error"
    /\ UNCHANGED <<graph, agents, k, ksp_reversed, constraints, paths, conflict, iter,
                   reservation, tableVars, ioVars, extVars>>

DetectReturn ==
    /\ pc = "detect"
    /\ paths # <<>>
    /\ conflict' = detect_conflict(agents, paths)
    /\ pc' = "detected"
    /\ UNCHANGED <<graph, agents, k, ksp_reversed, constraints, paths, iter,
                   reservation, tableVars, ioVars, extVars>>

DetectNext == DetectRaise \/ DetectReturn

DetectSpec == DetectInit /\ [][DetectNext]_vars

\* agents i and j are on the same coordinate at step t
Coincide(ps, i, j, t) == i # j /\ At(ps[i], t) = At(ps[j], t)

\* the steps at which two agents coincide
SharedSteps(ps) ==
    {t \in 0..(SetMax({0} \cup {Len(ps[i]) : i \in DOMAIN ps}) - 1) :
        \E i \in DOMAIN ps, j \in DOMAIN ps : Coincide(ps, i, j, t)}

\* C21: _detect_conflict returns None exactly when no two agents are on the
\* same coordinate at any step, a shorter path held at its last coordinate;
\* otherwise it returns (a1, a2, c, t) with t the first step at which two
\* agents coincide, a2 the first agent in iteration order that comes to a
\* coordinate taken at t, a1 the earlier agent on c at t, both of them on c
\* at t.
C21_FirstConflictOrNone ==
    pc \in {"detected", "error"} =>
        /\ pc = "detected"
        /\ IF SharedSteps(paths) = {}
           THEN conflict = NoConflict
           ELSE LET t == SetMin(SharedSteps(paths))
                    j == SetMin({n \in DOMAIN paths : \E m \in 1..(n - 1) : Coincide(paths, m, n, t)})
                    i == SetMin({m \in 1..(j - 1) : Coincide(paths, m, j, t)})
                IN  conflict = [a1 |-> agents[i].name, a2 |-> agents[j].name,
                                node |-> At(paths[j], t), time |-> t]

\* the same statement for the mappings that hold a path
C21_FirstConflictOfSomePaths ==
    pc = "detected" => C21_FirstConflictOrNone


\* the metas of the lines, the nodes and the obstacles of an editor, in a row
AllMetas(e) == e.line_meta \o e.node_meta \o e.obstacle_meta

\* C25: in every state of an editor session the ids of the lines, nodes and
\* obstacles held are pairwise distinct across all kinds, and each is below
\* the id counter, so that the next item created gets an id above them all.
C25_IdsDistinctBelowCounter ==
    LET metas == AllMetas(editor)
    IN  /\ \A i, j \in DOMAIN metas : i # j => metas[i].id # metas[j].id
        /\ \A i \in DOMAIN metas : metas[i].id < editor.next_id

\* the part of C25 on the counter: every id held is below the id counter
C25_HeldIdsBelowCounter ==
    \A i \in DOMAIN AllMetas(editor) : AllMetas(editor)[i].id < editor.next_id

\* the handles item_map holds for the items of a geometry kind
HandlesOf(e, kind) == {h \in DOMAIN e.item_map : e.item_map[h][1] = kind}

\* C26: in every state of an editor session, for each geometry kind, item_map
\* maps the handles of that kind one-to-one onto exactly the indices 0..n-1 of
\* the kind's list of length n.
C26_ItemMapOntoIndices ==
    \A kind \in GeometryKinds :
        LET hs == HandlesOf(editor, kind)
            n == Len(editor[ListOf(kind)])
        IN  /\ {editor.item_map[h][2] : h \in hs} = 0 .. (n - 1)
            /\ Cardinality(hs) = n

\* C27: every undo that pops the history entry of a line, node or obstacle
\* removes the record (list entry and meta) of that very item and of no other:
\* the last record of the item's kind goes exactly when the item is still in
\* item_map, it is the record whose meta was appended for the item, and the
\* records of the other kinds stay.
C27_UndoRemovesItsItem ==
    [][(/\ ~editor.button_down
        /\ editor.history # <<>>
        /\ Last(editor.history)[1] \in GeometryKinds
        /\ editor' = undo(editor).e) =>
           LET kind == Last(editor.history)[1]
               item == Last(editor.history)[2]
               metas == editor[MetaOf(kind)]
           IN  /\ \A other \in GeometryKinds \ {kind} :
                     /\ editor'[MetaOf(other)] = editor[MetaOf(other)]
                     /\ editor'[ListOf(other)] = editor[ListOf(other)]
               /\ IF item \in DOMAIN editor.item_map
                  THEN /\ metas # <<>>
                       /\ editor.drawn_for[item] = <<kind, Last(metas).id>>
                       /\ editor'[MetaOf(kind)] = Front(metas)
                       /\ editor'[ListOf(kind)] = Front(editor[ListOf(kind)])
                  ELSE /\ editor'[MetaOf(kind)] = metas
                       /\ editor'[ListOf(kind)] = editor[ListOf(kind)]]_vars

\* C28: a press on an item in select mode followed by the release, with
\* nothing moved, leaves that item the current selection, so that Delete
\* selected next removes it.
C28_ClickedItemSelected ==
    [][(/\ editor.button_down /\ ~editor'.button_down
        /\ editor.mode = "select"
        /\ editor.selected_item \in DOMAIN editor.item_map
        /\ \A kind \in GeometryKinds : editor'[ListOf(kind)] = editor[ListOf(kind)]
        /\ editor'.agents = editor.agents) =>
           /\ editor'.selected_item = editor.selected_item
           /\ editor.selected_item \notin DOMAIN delete_selected(editor').e.item_map]_vars

\* ---- Clear, on editors with pending starts, a changed grid and loaded layers

ClearTools == {"line", "obstacle", "goal"}

ClearGridEntries == {<<20>>}

ClearInit == SessionInit

\* the tool buttons answer also while the mouse button is held on the canvas
ClearMode(tool) ==
    /\ tool # editor.mode
    /\ Handled(Done([editor EXCEPT !.mode = tool]))

ClearPress(name) ==
    /\ ~editor.button_down
    /\ LET r == on_click(editor, [x |-> SessionPoint[1], y |-> SessionPoint[2],
                                  closest |-> NoItem, name |-> name])
       IN  Handled([r EXCEPT !.e.button_down = TRUE])

ClearRelease == SessionRelease

ClearGrid(entry) ==
    /\ update_grid(editor, entry) # editor
    /\ Handled(Done(update_grid(editor, entry)))

ClearLoad(f) == ~editor.button_down /\ Handled(load(editor, load_map(f)))

ClearAll == Noted("clear", Done(clear(editor)))

ClearNext ==
    \/ \E tool \in ClearTools : ClearMode(tool)
    \/ \E name \in (IF editor.mode \in MarkerKinds THEN SessionNames ELSE {""}) : ClearPress(name)
    \/ ClearRelease
    \/ \E entry \in ClearGridEntries : ClearGrid(entry)
    \/ \E f \in SessionFiles : ClearLoad(f)
    \/ ClearAll

ClearSpec == ClearInit /\ [][ClearNext]_vars

\* C29: after Clear the geometry lists, the meta lists, the agents, the
\* history and item_map are empty, the id counter is 1, no line start and no
\* obstacle corner is pending, and the layers and the grid spacing are those
\* of before.
C29_ClearEmptiesAllButGridAndLayers ==
    ed_last.op = "clear" =>
        /\ \A kind \in GeometryKinds :
              editor[ListOf(kind)] = <<>> /\ editor[MetaOf(kind)] = <<>>
        /\ editor.agents = EmptyMap
        /\ editor.history = <<>>
        /\ editor.item_map = EmptyMap
        /\ editor.next_id = 1
        /\ editor.line_start = NoPoint
        /\ editor.rect_start = NoPoint
        /\ editor.layers = ed_before.layers
        /\ editor.grid_size = ed_before.grid_size

\* Clear has acted on an editor that held items of a loaded file with two
\* layers, an agent, a history, a pending line start, a pending obstacle
\* corner and a changed grid spacing
C29_ClearedLoadedMap ==
    /\ ed_last.op = "clear"
    /\ ed_before.nodes # <<>>
    /\ ed_before.agents # EmptyMap
    /\ ed_before.history # <<>>
    /\ ed_before.next_id > 1
    /\ ed_before.line_start # NoPoint
    /\ ed_before.rect_start # NoPoint
    /\ ed_before.grid_size # NewEditor.grid_size
    /\ Len(ed_before.layers) = 2

\* undo invoked n times in a row, up to the first one that raises
RECURSIVE UndoTimes(_, _)
UndoTimes(e, n) ==
    IF n = 0 THEN Done(e)
    ELSE LET r == undo(e)
         IN  IF r.raised THEN r ELSE UndoTimes(r.e, n - 1)

\* the agent slots (start, goal) an editor holds
SlotsOf(e) ==
    {<<name, kind>> \in (DOMAIN e.agents) \X MarkerKinds : kind \in DOMAIN e.agents[name]}

\* the history has an entry for each item and each agent slot held, and undo
\* once per entry raises nothing and leaves the editor empty
UndoneItemByItem(e) ==
    /\ Len(e.history) = Len(AllMetas(e)) + Cardinality(SlotsOf(e))
    /\ LET r == UndoTimes(e, Len(e.history))
       IN  /\ ~r.raised
           /\ \A kind \in GeometryKinds :
                 r.e[ListOf(kind)] = <<>> /\ r.e[MetaOf(kind)] = <<>>
           /\ r.e.agents = EmptyMap
           /\ r.e.item_map = EmptyMap
           /\ r.e.history = <<>>

\* C30: after Load of a file that load_map accepts, the history holds one
\* entry per loaded item and per loaded agent slot, and undo once per entry
\* removes them one by one without failure, down to empty lists, metas,
\* agents and item_map.
C30_LoadedMapUndoneItemByItem ==
    ed_last.op = "load" => ~ed_last.raised /\ UndoneItemByItem(editor)

\* the part of C30 on files whose entries all carry an id and name layers of
\* the file's layer list
C30_ListedLayersUndone ==
    (/\ ed_last.op = "load"
     /\ ~ed_last.raised
     /\ \A i \in DOMAIN AllMetas(editor) :
           \E j \in DOMAIN editor.layers : editor.layers[j].name = AllMetas(editor)[i].layer) =>
        UndoneItemByItem(editor)

\* ---- placements, stamps and select-moves in both drag directions

MaxShapeItems == 1

ShapePoints == {<<41, 79>>, <<1, 1>>}

ShapeTools == {"select", "line", "node", "obstacle", "goal"}

ShapeStamps == {"None", "H-Line", "V-Line", "Obstacle"}

\* what the W and H entries hold
ShapeEntries == {<<40, 40>>, <<25, 0>>}

ShapeGridEntries == {<<30>>}

ShapeInit == SessionInit

\* what a handler leaves, with a note of the corner an obstacle was begun at
Shaped(r) ==
    /\ r.e.next_item <= MaxShapeItems + 1
    /\ editor' = r.e
    /\ ed_last' = [NoEvent EXCEPT !.point = IF Len(r.e.obstacles) > Len(editor.obstacles)
                                            THEN editor.rect_start ELSE <<>>]
    /\ ed_before' = NoEditor
    /\ UNCHANGED otherVars

ShapeMode(tool) ==
    /\ ~editor.button_down
    /\ tool # editor.mode
    /\ Shaped(Done([editor EXCEPT !.mode = tool]))

ShapeStamp(shape) ==
    /\ ~editor.button_down
    /\ shape # editor.shape
    /\ Shaped(Done([editor EXCEPT !.shape = shape]))

ShapeEntry(wh) ==
    /\ ~editor.button_down
    /\ <<editor.shape_w, editor.shape_h>> # wh
    /\ Shaped(Done([editor EXCEPT !.shape_w = wh[1], !.shape_h = wh[2]]))

ShapeGrid(entry) ==
    /\ ~editor.button_down
    /\ update_grid(editor, entry) # editor
    /\ Shaped(Done(update_grid(editor, entry)))

ShapePress(pt, closest, name) ==
    /\ ~editor.button_down
    /\ LET r == on_click(editor, [x |-> pt[1], y |-> pt[2], closest |-> closest, name |-> name])
       IN  Shaped([r EXCEPT !.e.button_down = TRUE])

ShapeDrag ==
    /\ editor.button_down
    /\ editor.mode = "select"
    /\ editor.selected_item \in DOMAIN editor.canvas
    /\ editor.canvas[editor.selected_item][1] + DragBy[1] <= MaxDragX
    /\ Shaped(Done(on_drag(editor, DragBy[1], DragBy[2])))

ShapeRelease(pt) ==
    /\ editor.button_down
    /\ LET r == on_release(editor, [x |-> pt[1], y |-> pt[2]])
       IN  Shaped([r EXCEPT !.e.button_down = FALSE])

ShapeNext ==
    \/ \E tool \in ShapeTools : ShapeMode(tool)
    \/ \E shape \in ShapeStamps : ShapeStamp(shape)
    \/ \E wh \in ShapeEntries : ShapeEntry(wh)
    \/ \E entry \in ShapeGridEntries : ShapeGrid(entry)
    \/ \E pt \in ShapePoints :
          \E closest \in (IF editor.mode = "select" /\ editor.shape = "None"
                          THEN DOMAIN editor.canvas ELSE {NoItem}) :
             \E name \in (IF editor.mode \in MarkerKinds /\ editor.shape = "None"
                          THEN {"A"} ELSE {""}) :
                ShapePress(pt, closest, name)
    \/ ShapeDrag
    \/ \E pt \in ShapePoints : ShapeRelease(pt)

ShapeSpec == ShapeInit /\ [][ShapeNext]_vars

\* C31: every obstacle the editor holds, stored by the obstacle tool in any
\* drag direction, by the Obstacle stamp or by a select-move, has x1 <= x2 and
\* y1 <= y2.
C31_ObstaclesNormalized ==
    \A i \in DOMAIN editor.obstacles :
        /\ editor.obstacles[i][1] <= editor.obstacles[i][3]
        /\ editor.obstacles[i][2] <= editor.obstacles[i][4]

\* an obstacle drawn from the lower right corner up to the upper left one
C31_DrawnBackwards ==
    /\ ed_last.point = <<40, 80>>
    /\ editor.obstacles # <<>>
    /\ Last(editor.obstacles) = <<0, 0, 40, 80>>

\* ---- the layers dialog: add_layer and rename_layer

MaxLayers == 3

\* what the name prompt returns: "" for an empty or cancelled prompt
LayerNames == {"", "Default", "Zone"}

\* what the colour chooser returns: None when it is cancelled
LayerColors == {None, "#ff0000"}

\* add_layer: the prompted name and the chosen colour appended as a new layer
add_layer(e, name, chosen) ==
    IF name = "" THEN e
    ELSE [e EXCEPT !.layers = Append(@, [name |-> name,
                                         color |-> IF chosen = None THEN "#000000" ELSE chosen,
                                         visible |-> TRUE]),
                   !.layer_items = MapPut(@, name, <<>>)]

\* the metas of a list with the layer old renamed
Relayered(metas, old, new) ==
    [i \in DOMAIN metas |-> IF metas[i].layer = old THEN [metas[i] EXCEPT !.layer = new]
                            ELSE metas[i]]

\* rename_layer of the i-th layer; layer_items.pop(old) raises KeyError when
\* an earlier rename of a layer of the same name took the key
rename_layer(e, i, new) ==
    IF new = "" THEN Done(e)
    ELSE LET old == e.layers[i].name
             e1 == [e EXCEPT !.layers[i].name = new,
                             !.layer_var = IF @ = old THEN new ELSE @]
         IN  IF old \notin DOMAIN e.layer_items THEN Raised(e1)
             ELSE Done([e1 EXCEPT
                     !.layer_items = MapPut(Without(e.layer_items, old), new, e.layer_items[old]),
                     !.line_meta = Relayered(@, old, new),
                     !.node_meta = Relayered(@, old, new),
                     !.obstacle_meta = Relayered(@, old, new)])

LayerInit ==
    /\ editor = [NewEditor EXCEPT !.mode = "node"]
    /\ ed_last = NoEvent
    /\ ed_before = NoEditor
    /\ BuilderIdle
    /\ reservation = EmptyMap
    /\ SolverIdle
    /\ TableIdle
    /\ IoIdle
    /\ PlanIdle

LayerAdd(name, chosen) ==
    /\ Len(editor.layers) < MaxLayers
    /\ editor' = add_layer(editor, name, chosen)
    /\ UNCHANGED <<ed_last, ed_before, otherVars>>

LayerRename(i, new) ==
    /\ editor' = rename_layer(editor, i, new).e
    /\ UNCHANGED <<ed_last, ed_before, otherVars>>

\* the layer menu: layer_var.set(name)
LayerPick(i) ==
    /\ editor' = [editor EXCEPT !.layer_var = editor.layers[i].name]
    /\ UNCHANGED <<ed_last, ed_before, otherVars>>

\* a click of the node tool, on the layer picked
LayerClick ==
    /\ editor.next_item <= 1
    /\ editor' = on_click(editor, [x |-> SessionPoint[1], y |-> SessionPoint[2],
                                   closest |-> NoItem, name |-> ""]).e
    /\ UNCHANGED <<ed_last, ed_before, otherVars>>

LayerNext ==
    \/ \E name \in LayerNames : \E chosen \in LayerColors : LayerAdd(name, chosen)
    \/ \E i \in DOMAIN editor.layers : \E new \in LayerNames : LayerRename(i, new)
    \/ \E i \in DOMAIN editor.layers : LayerPick(i)
    \/ LayerClick

LayerSpec == LayerInit /\ [][LayerNext]_vars

\* C32: in every state reached by add-layer and rename-layer operations the
\* names of the layers are pairwise distinct.
C32_LayerNamesDistinct ==
    \A i, j \in DOMAIN editor.layers :
        i # j => editor.layers[i].name # editor.layers[j].name

\* the coordinates of a geometry entry: a line's two points, a node's point or
\* an obstacle's rectangle
CoordsOf(kind, geom) ==
    IF kind = "line" THEN {geom[1][1], geom[1][2], geom[2][1], geom[2][2]}
    ELSE Range(geom)

\* the coordinates a step from editor d to editor e wrote: those of the entries
\* appended or changed in the geometry lists and in the agent slots
WrittenCoords(d, e) ==
    UNION ({CoordsOf(kind, e[ListOf(kind)][i]) :
               <<kind, i>> \in {<<kd, j>> \in GeometryKinds \X (1 .. MaxShapeItems + 2) :
                                  /\ j \in DOMAIN e[ListOf(kd)]
                                  /\ (j \in DOMAIN d[ListOf(kd)] => e[ListOf(kd)][j] # d[ListOf(kd)][j])}}
           \cup {Range(e.agents[sl[1]][sl[2]]) :
                    sl \in {sk \in SlotsOf(e) : sk \notin SlotsOf(d)
                                                   \/ e.agents[sk[1]][sk[2]] # d.agents[sk[1]][sk[2]]}})

\* C33: every coordinate a step writes into a line, node, obstacle or agent
\* slot, by a tool click, a stamp or a select-move, is a multiple of the grid
\* spacing in force.
C33_WritesOnGrid ==
    [][\A c \in WrittenCoords(editor, editor') : c % editor.grid_size = 0]_vars

\* the part of C33 on tool clicks and select-moves: with no stamp chosen and
\* no line start or obstacle corner pending from before a change of the spacing
C33_ToolWritesOnGrid ==
    [][(/\ editor.shape = "None"
        /\ \A c \in Range(editor.line_start) \cup Range(editor.rect_start) :
              c % editor.grid_size = 0) =>
          \A c \in WrittenCoords(editor, editor') : c % editor.grid_size = 0]_vars

\* ---- start and goal markers: placements, select-moves, undo, Delete selected

MaxMarkers == 3

MarkerTools == {"select", "start", "goal"}

\* what the name prompt returns: "" for an empty or cancelled prompt
MarkerNames == {"", "A", "B"}

MarkerInit ==
    /\ editor = [NewEditor EXCEPT !.mode = "start"]
    /\ ed_last = NoEvent
    /\ ed_before = NoEditor
    /\ BuilderIdle
    /\ reservation = EmptyMap
    /\ SolverIdle
    /\ TableIdle
    /\ IoIdle
    /\ PlanIdle

\* what a handler leaves, with a note of the handler and of the editor it was
\* invoked on
Marked(op, r) ==
    /\ r.e.next_item <= MaxMarkers + 1
    /\ editor' = r.e
    /\ ed_last' = [NoEvent EXCEPT !.op = op, !.raised = r.raised]
    /\ ed_before' = editor
    /\ UNCHANGED otherVars

MarkerMode(tool) ==
    /\ ~editor.button_down
    /\ tool # editor.mode
    /\ Marked("mode", Done([editor EXCEPT !.mode = tool]))

MarkerPress(closest, name) ==
    /\ ~editor.button_down
    /\ LET r == on_click(editor, [x |-> SessionPoint[1], y |-> SessionPoint[2],
                                  closest |-> closest, name |-> name])
       IN  Marked(IF editor.mode \in MarkerKinds /\ name = "" THEN "cancel" ELSE "press",
                  [r EXCEPT !.e.button_down = TRUE])

MarkerDrag ==
    /\ editor.button_down
    /\ editor.mode = "select"
    /\ editor.selected_item \in DOMAIN editor.canvas
    /\ editor.canvas[editor.selected_item][1] + DragBy[1] <= MaxDragX
    /\ Marked("drag", Done(on_drag(editor, DragBy[1], DragBy[2])))

MarkerRelease ==
    /\ editor.button_down
    /\ LET r == on_release(editor, [x |-> SessionPoint[1], y |-> SessionPoint[2]])
       IN  Marked("release", [r EXCEPT !.e.button_down = FALSE])

MarkerUndo == ~editor.button_down /\ Marked("undo", undo(editor))

MarkerDelete == Marked("delete", delete_selected(editor))

MarkerNext ==
    \/ \E tool \in MarkerTools : MarkerMode(tool)
    \/ \E closest \in (IF editor.mode = "select" THEN DOMAIN editor.canvas ELSE {NoItem}) :
          \E name \in (IF editor.mode \in MarkerKinds THEN MarkerNames ELSE {""}) :
             MarkerPress(closest, name)
    \/ MarkerDrag
    \/ MarkerRelease
    \/ MarkerUndo
    \/ MarkerDelete

MarkerSpec == MarkerInit /\ [][MarkerNext]_vars

\* C34: every agent of the agents mapping has a start or a goal; the undo of a
\* start or goal marker leaves the named agent without that slot, and without
\* the agent when no slot remains; an empty or cancelled name prompt leaves
\* the agents, the history and item_map as they were.
C34_AgentsHoldASlot ==
    /\ \A name \in DOMAIN editor.agents : DOMAIN editor.agents[name] # {}
    /\ (/\ ed_last.op = "undo"
        /\ ed_before.history # <<>>
        /\ Last(ed_before.history)[1] \in MarkerKinds) =>
           LET kind == Last(ed_before.history)[1]
               name == Last(ed_before.history)[3]
           IN  /\ name \in DOMAIN editor.agents => kind \notin DOMAIN editor.agents[name]
               /\ \A other \in DOMAIN ed_before.agents :
                     other # name => /\ other \in DOMAIN editor.agents
                                     /\ editor.agents[other] = ed_before.agents[other]
    /\ ed_last.op = "cancel" =>
           /\ editor.agents = ed_before.agents
           /\ editor.history = ed_before.history
           /\ editor.item_map = ed_before.item_map

\* an undo has taken the only slot of an agent, and the agent with it, while
\* another agent stays
C34_LastSlotUndone ==
    /\ ed_last.op = "undo"
    /\ "A" \in DOMAIN ed_before.agents
    /\ "A" \notin DOMAIN editor.agents
    /\ "B" \in DOMAIN editor.agents

\* the handles item_map holds for the markers of a slot of an agent
MarkersOf(e, name, kind) == {h \in DOMAIN e.item_map : e.item_map[h] = <<kind, name>>}

\* C36: the start and goal entries of item_map agree with the agents mapping:
\* each entry refers to an agent that has that slot set, and each slot set has
\* exactly one marker entry.
C36_MarkersMatchSlots ==
    /\ \A h \in DOMAIN editor.item_map :
          editor.item_map[h][1] \in MarkerKinds =>
              <<editor.item_map[h][2], editor.item_map[h][1]>> \in SlotsOf(editor)
    /\ \A sl \in SlotsOf(editor) : Cardinality(MarkersOf(editor, sl[1], sl[2])) = 1

-----------------------------------------------------------------------------
(* Termination of cbm_solve                                                  *)

\* a pass that found a conflict and went round the loop again forbade, for
\* the second agent of the conflict, a (coordinate, time) pair that no agent
\* had in its forbidden set, and changed no other forbidden set
ForbadeNewPair ==
    LET pair == <<conflict'.node, conflict'.time>>
    IN  /\ pair \notin Forbidden
        /\ pair \in FullTen.nodes
        /\ constraints' = [constraints EXCEPT ![conflict'.a2] = @ \cup {pair}]

\* build_ten is given the same graph and the same candidate paths in the
\* next pass, and so makes a network of the same horizon and the same nodes
SameNetwork ==
    /\ graph' = graph
    /\ paths_per_agent' = paths_per_agent

\* a call inside the loop can make its pass: the body of the loop returns,
\* raises or goes round again
PassPossible == pc = "loop" => Iteration # {}

C35_EmptyNetworkOnePass ==
    /\ graph.nodes = <<>>
    /\ FullTen.nodes = {}
    /\ iter = 1
    /\ pc = "error"

=============================================================================
